---- MODULE Spec2Model ----
(***************************************************************************)
(* Model of the xivdyetools OpenGraph worker's colour and layout core:     *)
(* hex/RGB conversion (services/svg/base.ts, mixer.ts), nearest-dye search *)
(* (dye-helpers.ts), harmony selection (harmony.ts), gradient and mixer    *)
(* interpolation (gradient.ts, mixer.ts), colour-vision simulation         *)
(* (accessibility.ts) and the six OG image generators.                     *)
(*                                                                         *)
(* Strings are sequences of one-character strings.  A JavaScript number is *)
(* a record [nan, twice]: NaN, or the rational twice/2 (integers and       *)
(* halves are the only values the modelled inputs produce).                *)
(***************************************************************************)
EXTENDS Integers, Sequences, FiniteSets, TLC

\* palette is the dye database snapshot, call / ret / pc the call in progress;
\* served is the log of the calls answered so far; wasmInitialized and
\* wasmInitPromise are the renderer's module state, initStarts counts the
\* invocations of initWasm, and tasks holds the asynchronous calls of the
\* renderer.
VARIABLES palette, call, ret, pc, served, wasmInitialized, wasmInitPromise, initStarts, tasks

rendererVars == <<wasmInitialized, wasmInitPromise, initStarts, tasks>>

vars == <<palette, call, ret, pc, served, rendererVars>>

\* The renderer module right after load, with no call made to it.
RendererLoaded ==
  /\ wasmInitialized = FALSE
  /\ wasmInitPromise = "null"
  /\ initStarts = 0

RendererUnused == RendererLoaded /\ tasks = <<>>

(***************************************************************************)
(* Bounds of the model.                                                    *)
(***************************************************************************)
MaxPalette == 5
MaxLimit == 5
MaxSteps == 8
MaxIds == 3

(***************************************************************************)
(* Small helpers.                                                          *)
(***************************************************************************)
Min(a, b) == IF a <= b THEN a ELSE b

Max(a, b) == IF a >= b THEN a ELSE b

Abs(a) == IF a < 0 THEN -a ELSE a

Range(s) == {s[i] : i \in 1..Len(s)}

(***************************************************************************)
(* JavaScript numbers.                                                     *)
(***************************************************************************)
JsNaN == [nan |-> TRUE, twice |-> 0]

JsInt(n) == [nan |-> FALSE, twice |-> 2 * n]

JsHalves(t) == [nan |-> FALSE, twice |-> t]

IsInteger(x) == ~x.nan /\ x.twice % 2 = 0

IntOf(x) == x.twice \div 2

\* Math.round of the rational a/b (b > 0): the nearest integer, halves up.
MathRound(a, b) == (2 * a + b) \div (2 * b)

(***************************************************************************)
(* IEEE-754 double arithmetic, as far as the colour formulas use it.  The  *)
(* values met there are below 1024 in magnitude and multiples of 2^-70, so *)
(* a double is kept as a sign and a fixed-point magnitude of NumLimbs      *)
(* limbs of LimbBits bits, least significant first, the last limb being    *)
(* the integer part.  Every operation computes the exact result and        *)
(* rounds it to MantissaBits significant bits, ties to even.               *)
(***************************************************************************)
LimbBits == 10

LimbBase == 1024

NumLimbs == 8

MantissaBits == 53

ZeroMag == [i \in 1..NumLimbs |-> 0]

DblZero == [neg |-> FALSE, mag |-> ZeroMag]

\* Limbs that left the range 0..LimbBase-1 are brought back, low to high.
RECURSIVE Carry(_, _, _)
Carry(limbs, i, c) ==
  IF i > Len(limbs) THEN limbs
  ELSE LET v == limbs[i] + c
       IN  Carry([limbs EXCEPT ![i] = v % LimbBase], i + 1, v \div LimbBase)

MagLess(x, y) ==
  \E i \in 1..NumLimbs : x[i] < y[i] /\ \A j \in (i + 1)..NumLimbs : x[j] = y[j]

\* The number of bits of a limb value.
BitLen(v) == IF v = 0 THEN 0 ELSE CHOOSE k \in 1..LimbBits : 2^(k - 1) <= v /\ v < 2^k

\* The position of the leading 1, counted from the lowest bit (0 for zero).
MsbPos(mag) ==
  IF mag = ZeroMag THEN 0
  ELSE LET top == CHOOSE k \in 1..NumLimbs :
                    mag[k] # 0 /\ \A j \in (k + 1)..NumLimbs : mag[j] = 0
       IN  LimbBits * (top - 1) + BitLen(mag[top])

\* Round to nearest, ties to even, at MantissaBits significant bits; sticky
\* says that the exact value exceeds mag by less than one lowest bit.
RoundMag(mag, sticky) ==
  LET Store(newLow) ==
        Carry([mag EXCEPT ![1] = newLow % LimbBase,
                          ![2] = (newLow \div LimbBase) % LimbBase,
                          ![3] = newLow \div (LimbBase * LimbBase)], 1, 0)
      Nearest(low, unit, dropped) ==
        Store(low - dropped
              + (IF \/ dropped > unit \div 2
                    \/ /\ dropped = unit \div 2
                       /\ (sticky \/ (low \div unit) % 2 = 1)
                 THEN unit ELSE 0))
      Drop(low, unit) == Nearest(low, unit, low % unit)
      Round(d) ==
        IF d <= 0 THEN mag
        ELSE Drop(mag[1] + LimbBase * mag[2] + LimbBase * LimbBase * mag[3], 2^d)
  IN  Round(MsbPos(mag) - MantissaBits)

MakeDbl(neg, mag) == [neg |-> neg /\ mag # ZeroMag, mag |-> mag]

DblFromInt(n) == MakeDbl(n < 0, [ZeroMag EXCEPT ![NumLimbs] = Abs(n)])

\* The remainder left after j fraction limbs of the long division num / den.
RECURSIVE DivRem(_, _, _)
DivRem(num, den, j) ==
  IF j = 0 THEN num % den ELSE (DivRem(num, den, j - 1) * LimbBase) % den

\* num / den for integers, den > 0.
DblDiv(num, den) ==
  LET n   == Abs(num)
      mag == [i \in 1..NumLimbs |->
                IF i = NumLimbs THEN n \div den
                ELSE (DivRem(n, den, NumLimbs - i - 1) * LimbBase) \div den]
  IN  MakeDbl(num < 0, RoundMag(mag, DivRem(n, den, NumLimbs - 1) # 0))

\* x * n for an integer n.
DblMulInt(x, n) ==
  MakeDbl(x.neg # (n < 0),
          RoundMag(Carry([i \in 1..NumLimbs |-> x.mag[i] * Abs(n)], 1, 0), FALSE))

DblNeg(x) == MakeDbl(~x.neg, x.mag)

\* Equal signs add the magnitudes; otherwise the smaller magnitude is taken
\* from the larger one, whose sign the result has.
DblAdd(x, y) ==
  LET flip == x.neg # y.neg /\ MagLess(x.mag, y.mag)
  IN  MakeDbl(IF flip THEN y.neg ELSE x.neg,
              RoundMag(Carry([i \in 1..NumLimbs |->
                                IF x.neg = y.neg THEN x.mag[i] + y.mag[i]
                                ELSE IF flip THEN y.mag[i] - x.mag[i]
                                ELSE x.mag[i] - y.mag[i]], 1, 0),
                       FALSE))

DblSub(x, y) == DblAdd(x, DblNeg(y))

\* Math.round: the nearest integer, a fraction of exactly one half goes up.
DblRound(x) ==
  LET int     == x.mag[NumLimbs]
      top     == x.mag[NumLimbs - 1]
      isHalf  == top = LimbBase \div 2 /\ \A i \in 1..(NumLimbs - 2) : x.mag[i] = 0
      atLeast == top >= LimbBase \div 2
  IN  IF x.neg THEN -(int + (IF atLeast /\ ~isHalf THEN 1 ELSE 0))
      ELSE int + (IF atLeast THEN 1 ELSE 0)

\* Math.min(255, Math.max(0, x))
DblClampChannel(x) ==
  IF x.neg THEN DblZero
  ELSE IF x.mag[NumLimbs] >= 255 THEN DblFromInt(255)
  ELSE x

(***************************************************************************)
(* Characters and strings.                                                 *)
(***************************************************************************)
LowerDigits == <<"0", "1", "2", "3", "4", "5", "6", "7", "8", "9",
                 "a", "b", "c", "d", "e", "f">>

UpperDigits == <<"0", "1", "2", "3", "4", "5", "6", "7", "8", "9",
                 "A", "B", "C", "D", "E", "F">>

IsHexDigit(c) == c \in Range(LowerDigits) \cup Range(UpperDigits)

DigitVal(c) == CHOOSE v \in 0..15 : LowerDigits[v + 1] = c \/ UpperDigits[v + 1] = c

\* String.prototype.slice(a, b) for 0 <= a <= b.
Slice(s, a, b) == SubSeq(s, a + 1, Min(b, Len(s)))

\* String.prototype.startsWith('#').
StartsWithHash(s) == Len(s) >= 1 /\ s[1] = "#"

\* String.prototype.replace('#', ''): removes the first '#', wherever it is.
ReplaceHash(s) ==
  IF \E i \in 1..Len(s) : s[i] = "#"
  THEN LET i == CHOOSE k \in 1..Len(s) : s[k] = "#" /\ \A j \in 1..(k - 1) : s[j] # "#"
       IN  SubSeq(s, 1, i - 1) \o SubSeq(s, i + 1, Len(s))
  ELSE s

\* String.prototype.toLowerCase / toUpperCase on the model's alphabet.
LowerChar(c) ==
  IF \E v \in 11..16 : UpperDigits[v] = c
  THEN LowerDigits[CHOOSE v \in 11..16 : UpperDigits[v] = c]
  ELSE c

ToLowerCase(s) == [i \in 1..Len(s) |-> LowerChar(s[i])]

\* String.prototype.padStart(2, '0').
PadStart2(s) ==
  IF Len(s) >= 2 THEN s
  ELSE IF Len(s) = 1 THEN <<"0">> \o s
  ELSE <<"0", "0">>

(***************************************************************************)
(* parseInt(s, 16): optional sign, optional 0x prefix, then the longest    *)
(* prefix of hexadecimal digits; NaN when that prefix is empty.            *)
(***************************************************************************)
RECURSIVE DigitPrefixLen(_)
DigitPrefixLen(s) ==
  IF Len(s) = 0 \/ ~IsHexDigit(s[1]) THEN 0
  ELSE 1 + DigitPrefixLen(Tail(s))

RECURSIVE DigitsValue(_, _)
DigitsValue(s, acc) ==
  IF Len(s) = 0 THEN acc
  ELSE DigitsValue(Tail(s), 16 * acc + DigitVal(s[1]))

ParseInt16(s) ==
  LET neg == Len(s) >= 1 /\ s[1] = "-"
      s1  == IF Len(s) >= 1 /\ s[1] \in {"-", "+"} THEN Tail(s) ELSE s
      s2  == IF Len(s1) >= 2 /\ s1[1] = "0" /\ s1[2] \in {"x", "X"}
             THEN Tail(Tail(s1)) ELSE s1
      n   == DigitPrefixLen(s2)
      v   == DigitsValue(SubSeq(s2, 1, n), 0)
  IN  IF n = 0 THEN JsNaN ELSE JsInt(IF neg THEN -v ELSE v)

(***************************************************************************)
(* Number.prototype.toString(16).                                          *)
(***************************************************************************)
RECURSIVE NatToString16(_)
NatToString16(n) ==
  IF n < 16 THEN <<LowerDigits[n + 1]>>
  ELSE NatToString16(n \div 16) \o <<LowerDigits[(n % 16) + 1]>>

ToString16(x) ==
  IF x.nan THEN <<"N", "a", "N">>
  ELSE LET a    == Abs(x.twice)
           body == NatToString16(a \div 2) \o (IF a % 2 = 1 THEN <<".", "8">> ELSE <<>>)
       IN  IF x.twice < 0 THEN <<"-">> \o body ELSE body

(***************************************************************************)
(* hexToRgb and rgbToHex (base.ts; mixer.ts holds identical copies).       *)
(***************************************************************************)
hexToRgb(hex) ==
  LET cleanHex == ReplaceHash(hex)
  IN  [r |-> ParseInt16(Slice(cleanHex, 0, 2)),
       g |-> ParseInt16(Slice(cleanHex, 2, 4)),
       b |-> ParseInt16(Slice(cleanHex, 4, 6))]

\* rgbToHex without the zero padding of each channel.
rgbToHexNoPad(r, g, b) ==
  <<"#">> \o ToString16(r) \o ToString16(g) \o ToString16(b)

rgbToHex(r, g, b) ==
  <<"#">> \o PadStart2(ToString16(r)) \o PadStart2(ToString16(g)) \o PadStart2(ToString16(b))

(***************************************************************************)
(* Inputs of the conversion specification.                                 *)
(***************************************************************************)
HexChunks == {<<"0", "0">>, <<"0", "a">>, <<"7", "F">>, <<"F", "f">>,
              <<"f", "g">>, <<"g", "0">>, <<"-", "1">>, <<"0", "x">>,
              <<"f">>, <<"#", "8">>}

HexInputs ==
  {p \o c1 \o c2 \o c3 \o t :
     p \in {<<>>, <<"#">>}, c1 \in HexChunks, c2 \in HexChunks, c3 \in HexChunks,
     t \in {<<>>, <<"0">>}}

NumberInputs ==
  {JsInt(-1), JsInt(0), JsHalves(1), JsInt(10), JsInt(16), JsHalves(255),
   JsInt(255), JsInt(256), JsInt(300)}

NoRet == [threw |-> FALSE]

(***************************************************************************)
(* The palette: entries of the dye database in enumeration order           *)
(* (dyeService.getAllDyes()).  Every entry carries its internal id, its    *)
(* itemID, its name, its hex colour and the hue angle, in whole degrees,   *)
(* that atan2(lab.b, lab.a) * 180 / PI gives for ColorService.hexToLab of  *)
(* that colour.                                                            *)
(***************************************************************************)
DyePool ==
  << [id |-> 1, itemID |-> 11, name |-> "Snow White", hue |-> 0,
      hex |-> <<"#", "F", "F", "F", "F", "F", "F">>],
     [id |-> 2, itemID |-> 12, name |-> "Dalamud Red", hue |-> 40,
      hex |-> <<"#", "f", "f", "0", "0", "0", "0">>],
     [id |-> 3, itemID |-> 13, name |-> "Lime Green", hue |-> 136,
      hex |-> <<"#", "0", "0", "f", "f", "0", "0">>],
     [id |-> 4, itemID |-> 14, name |-> "Royal Blue", hue |-> -54,
      hex |-> <<"#", "0", "0", "0", "0", "F", "F">>],
     [id |-> 5, itemID |-> 15, name |-> "Soot Black", hue |-> 0,
      hex |-> <<"#", "0", "0", "0", "0", "0", "0">>],
     [id |-> 6, itemID |-> 16, name |-> "Rose Red", hue |-> 40,
      hex |-> <<"#", "F", "F", "0", "0", "0", "0">>] >>

Reverse(s) == [i \in 1..Len(s) |-> s[Len(s) + 1 - i]]

\* The entries of pool whose index is in S, in pool order.
RECURSIVE Select(_, _, _)
Select(pool, S, i) ==
  IF i > Len(pool) THEN <<>>
  ELSE (IF i \in S THEN <<pool[i]>> ELSE <<>>) \o Select(pool, S, i + 1)

Palettes ==
  {Select(pool, S, 1) :
     pool \in {DyePool, Reverse(DyePool)},
     S \in {T \in SUBSET (1..Len(DyePool)) : Cardinality(T) <= MaxPalette}}

DefaultPalette == DyePool

(***************************************************************************)
(* ColorConverter.getDeltaE_Oklab(hexA, hexB) of @xivdyetools/core: a      *)
(* symmetric distance that is 0 on equal colours.  It stands here as the   *)
(* squared distance of the RGB channels; a malformed colour gives NaN.     *)
(***************************************************************************)
IsSixDigits(s) ==
  /\ Len(s) = 6
  /\ \A i \in 1..6 : IsHexDigit(s[i])

IsColor(hex) == IsSixDigits(IF StartsWithHash(hex) THEN Tail(hex) ELSE hex)

Sq(x) == x * x

getDeltaE_Oklab(hexA, hexB) ==
  IF IsColor(hexA) /\ IsColor(hexB)
  THEN LET Distance(a, b) == JsInt(Sq(IntOf(a.r) - IntOf(b.r)) + Sq(IntOf(a.g) - IntOf(b.g))
                                   + Sq(IntOf(a.b) - IntOf(b.b)))
       IN  Distance(hexToRgb(hexA), hexToRgb(hexB))
  ELSE JsNaN

(***************************************************************************)
(* Array.prototype.slice(0, end) and the stable Array.prototype.sort with  *)
(* the comparator (a, b) => a.distance - b.distance.                       *)
(***************************************************************************)
ArraySlice(arr, end) ==
  LET e == IF end < 0 THEN Max(Len(arr) + end, 0) ELSE Min(end, Len(arr))
  IN  SubSeq(arr, 1, e)

\* A sort that also moves an element behind a later one at the same distance.
SortsAfterOrEqual(a, b) ==
  /\ ~a.distance.nan
  /\ ~b.distance.nan
  /\ a.distance.twice - b.distance.twice >= 0

\* The comparator's result is positive: a sorts after b.  NaN is not positive.
SortsAfter(a, b) ==
  /\ ~a.distance.nan
  /\ ~b.distance.nan
  /\ a.distance.twice - b.distance.twice > 0

\* Insert x behind every element it does not sort before (stable).
RECURSIVE InsertSorted(_, _)
InsertSorted(sorted, x) ==
  IF Len(sorted) = 0 THEN <<x>>
  ELSE IF SortsAfter(sorted[Len(sorted)], x)
       THEN InsertSorted(SubSeq(sorted, 1, Len(sorted) - 1), x) \o <<sorted[Len(sorted)]>>
       ELSE sorted \o <<x>>

RECURSIVE SortByDistance(_, _)
SortByDistance(arr, acc) ==
  IF Len(arr) = 0 THEN acc
  ELSE SortByDistance(Tail(arr), InsertSorted(acc, arr[1]))

(***************************************************************************)
(* findClosestDyesWithDistance and getDyeByItemId (dye-helpers.ts).        *)
(***************************************************************************)
\* The filter without the exclusion set.
CandidatesAll(allDyes, excludeIds) == allDyes

Candidates(allDyes, excludeIds) ==
  LET Keep(dye) == dye.id \notin excludeIds
  IN  SelectSeq(allDyes, Keep)

findClosestDyesWithDistance(allDyes, hex, limit, excludeIds) ==
  LET candidates    == Candidates(allDyes, excludeIds)
      withDistances == [i \in 1..Len(candidates) |->
                          [dye |-> candidates[i],
                           distance |-> getDeltaE_Oklab(hex, candidates[i].hex)]]
  IN  ArraySlice(SortByDistance(withDistances, <<>>), limit)

\* Array.prototype.find: the first entry with that itemID, or NoDye.
NoDye == [id |-> 0]

getDyeByItemId(allDyes, itemId) ==
  IF \E i \in 1..Len(allDyes) : allDyes[i].itemID = itemId
  THEN allDyes[CHOOSE i \in 1..Len(allDyes) :
                 /\ allDyes[i].itemID = itemId
                 /\ \A j \in 1..(i - 1) : allDyes[j].itemID # itemId]
  ELSE NoDye

(***************************************************************************)
(* getHarmonyMatches (harmony.ts).                                         *)
(***************************************************************************)
\* The JavaScript remainder a % b (b > 0): it keeps the sign of a.
JsRem(a, b) == IF a >= 0 THEN a % b ELSE -((-a) % b)

NormalizeHue(h) == JsRem(JsRem(h, 360) + 360, 360)

HueSchemes == {"complementary", "analogous", "triadic", "split-complementary",
               "tetradic", "square", "compound"}

ClosestSchemes == {"monochromatic", "shades"}

\* The switch whose default branch leaves the list of target hues empty.
TargetOffsetsNoDefault(harmonyType) ==
  CASE harmonyType = "complementary"       -> <<180>>
    [] harmonyType = "analogous"           -> <<-30, 30>>
    [] harmonyType = "triadic"             -> <<120, -120>>
    [] harmonyType = "split-complementary" -> <<150, -150>>
    [] harmonyType = "tetradic"            -> <<60, 180, 240>>
    [] harmonyType = "square"              -> <<90, 180, 270>>
    [] harmonyType = "compound"            -> <<30, 150, -150, -30>>
    [] OTHER                               -> <<>>

\* The offsets the switch adds to baseHue.
TargetOffsets(harmonyType) ==
  CASE harmonyType = "complementary"       -> <<180>>
    [] harmonyType = "analogous"           -> <<-30, 30>>
    [] harmonyType = "triadic"             -> <<120, -120>>
    [] harmonyType = "split-complementary" -> <<150, -150>>
    [] harmonyType = "tetradic"            -> <<60, 180, 240>>
    [] harmonyType = "square"              -> <<90, 180, 270>>
    [] harmonyType = "compound"            -> <<30, 150, -150, -30>>
    [] OTHER                               -> <<180>>

HueDiff(normalizedHue, candidateHue) ==
  LET d == Abs(normalizedHue - NormalizeHue(candidateHue))
  IN  IF d > 180 THEN 360 - d ELSE d

\* The comparison that lets a later candidate replace an equally close one.
BetterHueOrEqual(hueDiff, bestHueDiff) == hueDiff <= bestHueDiff

BetterHue(hueDiff, bestHueDiff) == hueDiff < bestHueDiff

\* The inner loop over allDyes from index i on; best = 0 is bestMatch = null
\* (bestHueDiff = Infinity).  Returns the index of bestMatch.
RECURSIVE ScanCandidates(_, _, _, _, _, _)
ScanCandidates(allDyes, dye, matches, normalizedHue, i, best) ==
  IF i > Len(allDyes) THEN best
  ELSE LET candidateDye == allDyes[i]
           skip == \/ candidateDye.id = dye.id
                   \/ \E m \in 1..Len(matches) : matches[m].dye.id = candidateDye.id
           hueDiff == HueDiff(normalizedHue, candidateDye.hue)
           take == \/ best = 0
                   \/ BetterHue(hueDiff, HueDiff(normalizedHue, allDyes[best].hue))
       IN  ScanCandidates(allDyes, dye, matches, normalizedHue, i + 1,
                          IF ~skip /\ take THEN i ELSE best)

\* The outer loop over targetHues from index k on.
RECURSIVE MatchTargets(_, _, _, _, _)
MatchTargets(allDyes, dye, offsets, k, matches) ==
  IF k > Len(offsets) THEN matches
  ELSE LET normalizedHue == NormalizeHue(dye.hue + offsets[k])
           Push(best) ==
             IF best = 0 THEN matches
             ELSE matches \o <<[dye |-> allDyes[best],
                                delta |-> getDeltaE_Oklab(dye.hex, allDyes[best].hex)]>>
       IN  MatchTargets(allDyes, dye, offsets, k + 1,
                        Push(ScanCandidates(allDyes, dye, matches, normalizedHue, 1, 0)))

\* The function without the two early returns: every scheme goes through the
\* hue scan.
getHarmonyMatchesHueOnly(allDyes, dye, harmonyType) ==
  ArraySlice(MatchTargets(allDyes, dye, TargetOffsets(harmonyType), 1, <<>>), 4)

getHarmonyMatches(allDyes, dye, harmonyType) ==
  IF harmonyType \in ClosestSchemes
  THEN LET WithDelta(found) ==
             [i \in 1..Len(found) |-> [dye |-> found[i].dye, delta |-> found[i].distance]]
       IN  WithDelta(findClosestDyesWithDistance(allDyes, dye.hex, 4, {dye.id}))
  ELSE ArraySlice(MatchTargets(allDyes, dye, TargetOffsets(harmonyType), 1, <<>>), 4)

(***************************************************************************)
(* Matching specification: the initial state holds a palette and the       *)
(* arguments of one call, the step applies the function to them.           *)
(***************************************************************************)
TargetColors == {<<"#", "0", "0", "0", "0", "0", "0">>,
                 <<"#", "F", "E", "0", "0", "0", "0">>,
                 <<"8", "0", "8", "0", "8", "0">>}

ExcludeSets == SUBSET {1, 2, 6}

HarmonyTypes == HueSchemes \cup ClosestSchemes \cup {"rainbow"}

MatchCalls(pal) ==
  {[op |-> "findClosest", hex |-> h, limit |-> l, excludeIds |-> x] :
     h \in TargetColors, l \in (-1)..MaxLimit, x \in ExcludeSets}
  \cup {[op |-> "harmonyMatches", base |-> i, harmonyType |-> t] :
          i \in 1..Len(pal), t \in HarmonyTypes}

InitMatch ==
  /\ palette \in Palettes
  /\ call \in MatchCalls(palette)
  /\ ret = NoRet
  /\ pc = "call"
  /\ served = <<>>
  /\ RendererUnused

CallFindClosest ==
  /\ pc = "call"
  /\ call.op = "findClosest"
  /\ ret' = [threw |-> FALSE,
             matches |-> findClosestDyesWithDistance(palette, call.hex, call.limit,
                                                     call.excludeIds)]
  /\ pc' = "done"
  /\ UNCHANGED <<palette, call, served, rendererVars>>

CallHarmonyMatches ==
  /\ pc = "call"
  /\ call.op = "harmonyMatches"
  /\ ret' = [threw |-> FALSE,
             matches |-> getHarmonyMatches(palette, palette[call.base], call.harmonyType)]
  /\ pc' = "done"
  /\ UNCHANGED <<palette, call, served, rendererVars>>

NextMatch == CallFindClosest \/ CallHarmonyMatches

SpecMatch == InitMatch /\ [][NextMatch]_vars

(***************************************************************************)
(* interpolateColor and generateGradientSteps (gradient.ts).  The ratio    *)
(* i / (stepCount - 1) is kept as the pair num/den; 0/0 is NaN.            *)
(***************************************************************************)
\* Math.round(c1 + (c2 - c1) * (num / den)).
InterpolateChannel(c1, c2, num, den) ==
  IF c1.nan \/ c2.nan \/ den = 0 THEN JsNaN
  ELSE JsInt(DblRound(DblAdd(DblFromInt(IntOf(c1)),
                             DblMulInt(DblDiv(num, den), IntOf(c2) - IntOf(c1)))))

\* The interpolation with the ratio i / stepCount, which never reaches 1.
interpolateColorShort(color1, color2, num, den) ==
  LET hex1 == ReplaceHash(color1)
      hex2 == ReplaceHash(color2)
      Ch(a, b) == InterpolateChannel(ParseInt16(Slice(hex1, a, b)),
                                     ParseInt16(Slice(hex2, a, b)), num, den + 1)
  IN  <<"#">> \o PadStart2(ToString16(Ch(0, 2))) \o PadStart2(ToString16(Ch(2, 4)))
              \o PadStart2(ToString16(Ch(4, 6)))

interpolateColor(color1, color2, num, den) ==
  LET hex1 == ReplaceHash(color1)
      hex2 == ReplaceHash(color2)
      Ch(a, b) == InterpolateChannel(ParseInt16(Slice(hex1, a, b)),
                                     ParseInt16(Slice(hex2, a, b)), num, den)
  IN  <<"#">> \o PadStart2(ToString16(Ch(0, 2))) \o PadStart2(ToString16(Ch(2, 4)))
              \o PadStart2(ToString16(Ch(4, 6)))

\* One entry per i in 0..stepCount-1; matches holds matches[0] when it exists.
generateGradientSteps(allDyes, startHex, endHex, stepCount) ==
  [k \in 1..Max(stepCount, 0) |->
     LET Step(hex) == [hex |-> hex,
                       matches |-> findClosestDyesWithDistance(allDyes, hex, 1, {})]
     IN  Step(interpolateColor(startHex, endHex, k - 1, stepCount - 1))]

\* getDeltaE_Oklab is reached with a malformed colour and the library is one
\* that rejects it by throwing (strict) instead of returning NaN.
DistanceThrows(allDyes, hex, strict) == strict /\ ~IsColor(hex) /\ Len(allDyes) > 0

(***************************************************************************)
(* mixColors and mixThreeColors (mixer.ts).                                *)
(***************************************************************************)
MixChannel(c1, c2, ratio) ==
  IF c1.nan \/ c2.nan THEN JsNaN
  ELSE LET Mix(mixRatio) ==
             JsInt(DblRound(DblAdd(DblMulInt(mixRatio, IntOf(c1)),
                                   DblMulInt(DblSub(DblFromInt(1), mixRatio), IntOf(c2)))))
       IN  Mix(DblDiv(ratio, 100))

mixColors(color1, color2, ratio) ==
  LET Mixed(rgb1, rgb2) ==
        rgbToHex(MixChannel(rgb1.r, rgb2.r, ratio), MixChannel(rgb1.g, rgb2.g, ratio),
                 MixChannel(rgb1.b, rgb2.b, ratio))
  IN  Mixed(hexToRgb(color1), hexToRgb(color2))

MeanChannel(c1, c2, c3) ==
  IF c1.nan \/ c2.nan \/ c3.nan THEN JsNaN
  ELSE JsInt(DblRound(DblDiv(IntOf(c1) + IntOf(c2) + IntOf(c3), 3)))

mixThreeColors(color1, color2, color3) ==
  LET Mixed(rgb1, rgb2, rgb3) ==
        rgbToHex(MeanChannel(rgb1.r, rgb2.r, rgb3.r), MeanChannel(rgb1.g, rgb2.g, rgb3.g),
                 MeanChannel(rgb1.b, rgb2.b, rgb3.b))
  IN  Mixed(hexToRgb(color1), hexToRgb(color2), hexToRgb(color3))

(***************************************************************************)
(* simulateColorVision (accessibility.ts).  The matrices are in            *)
(* thousandths.                                                            *)
(***************************************************************************)
VisionTypes == {"normal", "protanopia", "deuteranopia", "tritanopia", "achromatopsia"}

VISION_MATRICES ==
  [v \in VisionTypes |->
     CASE v = "normal"        -> <<<<1000, 0, 0>>, <<0, 1000, 0>>, <<0, 0, 1000>>>>
       [] v = "protanopia"    -> <<<<567, 433, 0>>, <<558, 442, 0>>, <<0, 242, 758>>>>
       [] v = "deuteranopia"  -> <<<<625, 375, 0>>, <<700, 300, 0>>, <<0, 300, 700>>>>
       [] v = "tritanopia"    -> <<<<950, 50, 0>>, <<0, 433, 567>>, <<0, 475, 525>>>>
       [] v = "achromatopsia" -> <<<<299, 587, 114>>, <<299, 587, 114>>, <<299, 587, 114>>>>]

\* Math.round(Math.min(255, Math.max(0, row . (r, g, b)))).
SimulateChannel(row, rgb) ==
  IF rgb.r.nan \/ rgb.g.nan \/ rgb.b.nan THEN JsNaN
  ELSE JsInt(DblRound(DblClampChannel(
               DblAdd(DblAdd(DblMulInt(DblDiv(row[1], 1000), IntOf(rgb.r)),
                             DblMulInt(DblDiv(row[2], 1000), IntOf(rgb.g))),
                      DblMulInt(DblDiv(row[3], 1000), IntOf(rgb.b))))))

\* Reading matrix[0][0] of a visionType that has no matrix is a TypeError.
SimulateThrows(visionType) == visionType # "normal" /\ visionType \notin VisionTypes

\* The function without its early return: 'normal' goes through its matrix.
simulateColorVisionNoReturn(hex, visionType) ==
  LET matrix == VISION_MATRICES[visionType]
      Apply(rgb) == rgbToHex(SimulateChannel(matrix[1], rgb), SimulateChannel(matrix[2], rgb),
                             SimulateChannel(matrix[3], rgb))
  IN  Apply(hexToRgb(hex))

simulateColorVision(hex, visionType) ==
  IF visionType = "normal" THEN hex
  ELSE LET matrix == VISION_MATRICES[visionType]
           Apply(rgb) == rgbToHex(SimulateChannel(matrix[1], rgb),
                                  SimulateChannel(matrix[2], rgb),
                                  SimulateChannel(matrix[3], rgb))
       IN  Apply(hexToRgb(hex))

(***************************************************************************)
(* The geometry of the populated layouts: the rectangles that rect(x, y,   *)
(* width, height, ...) draws.  Every coordinate is counted in halves of a  *)
(* pixel, the finest unit the layouts compute; swatch tells a colour       *)
(* swatch from a card, a bar or a badge.                                   *)
(***************************************************************************)
OG_DIMENSIONS == [width |-> 1200, height |-> 630]

\* LAYOUT of the card: the content area between header and footer.
LAYOUT == [contentTop |-> 80, contentBottom |-> 560, contentHeight |-> 480,
           padding |-> 40, contentWidth |-> 1120]

Rect(x2, y2, w2, h2, isSwatch) ==
  [x |-> JsHalves(x2), y |-> JsHalves(y2), width |-> JsHalves(w2), height |-> JsHalves(h2),
   swatch |-> isSwatch]

SwatchRect(x2, y2, size) == Rect(x2, y2, 2 * size, 2 * size, TRUE)

\* Swatches so wide that seven of them do not fit the canvas.
GradientSwatchSizeWide == 2 * 90

GradientSwatchSize == 110

\* The swatch rectangles with their endpoint styling, the gradient bar, and
\* the x of the START and END labels.  drawn is the number of steps that
\* slice(0, maxSwatches) keeps, steps is gradientSteps.length.
GradientGeometry(maxSwatches, drawn, steps) ==
  LET swatchSize       == GradientSwatchSize
      minGap           == 18
      totalSwatchWidth == maxSwatches * swatchSize + (maxSwatches - 1) * minGap
      startX2          == OG_DIMENSIONS.width - totalSwatchWidth
      swatchY2         == 2 * LAYOUT.contentTop
                          + (LAYOUT.contentHeight - (20 + swatchSize + 28 + 50)) + 40
      barY2            == swatchY2 + 2 * swatchSize + 40
      Swatch(k)        == SwatchRect(startX2 + 2 * (k - 1) * (swatchSize + minGap), swatchY2,
                                     swatchSize)
  IN  [swatches   |-> [k \in 1..drawn |->
                        Swatch(k) @@ [isEndpoint |-> (k - 1 = 0 \/ k - 1 = steps - 1)]],
       rects      |-> <<Rect(startX2, barY2, 2 * totalSwatchWidth, 16, FALSE)>>
                      \o [k \in 1..drawn |-> Swatch(k)],
       startLabel |-> JsHalves(startX2 + swatchSize),
       endLabel   |-> JsHalves(startX2 + 2 * totalSwatchWidth - swatchSize)]

\* The input card, the input swatch and one swatch per match drawn.
HarmonyRects(maxMatches) ==
  LET leftCardX       == LAYOUT.padding
      leftCardWidth   == 350
      leftCardHeight  == LAYOUT.contentHeight - 60
      leftCardY2      == 2 * LAYOUT.contentTop + (LAYOUT.contentHeight - leftCardHeight)
      swatchSize      == 160
      rightStartX     == leftCardX + leftCardWidth + 40
      rightWidth      == OG_DIMENSIONS.width - rightStartX - LAYOUT.padding
      matchSwatchSize == IF maxMatches <= 2 THEN 140 ELSE IF maxMatches = 3 THEN 120 ELSE 110
      matchGap        == IF maxMatches <= 2 THEN 25 ELSE 18
      totalMatchWidth == maxMatches * matchSwatchSize + (maxMatches - 1) * matchGap
      matchStartX2    == 2 * rightStartX + (rightWidth - totalMatchWidth)
      matchStartY2    == 2 * LAYOUT.contentTop + (LAYOUT.contentHeight - matchSwatchSize - 70)
  IN  <<Rect(2 * leftCardX, leftCardY2, 2 * leftCardWidth, 2 * leftCardHeight, FALSE),
        SwatchRect(2 * leftCardX + (leftCardWidth - swatchSize), leftCardY2 + 120, swatchSize)>>
      \o [k \in 1..maxMatches |->
            SwatchRect(matchStartX2 + 2 * (k - 1) * (matchSwatchSize + matchGap), matchStartY2,
                       matchSwatchSize)]

\* The two swatches and the result swatch of the two-dye layout.
TwoDyeMixerRects ==
  LET swatchSize  == 120
      operatorGap == 35
      totalWidth  == swatchSize * 3 + operatorGap * 4
      startX2     == OG_DIMENSIONS.width - totalWidth
      swatchY2    == 2 * LAYOUT.contentTop + (LAYOUT.contentHeight - (15 + swatchSize + 60)) + 30
      dyeBX2      == startX2 + 2 * (swatchSize + operatorGap + operatorGap)
      resultX2    == dyeBX2 + 2 * (swatchSize + operatorGap + operatorGap)
  IN  <<SwatchRect(startX2, swatchY2, swatchSize), SwatchRect(dyeBX2, swatchY2, swatchSize),
        SwatchRect(resultX2, swatchY2, swatchSize)>>

\* The three input swatches and the result swatch of the three-dye layout.
ThreeDyeMixerRects ==
  LET inputSwatchSize  == 90
      resultSwatchSize == 110
      operatorGap      == 30
      totalHeight      == inputSwatchSize + 25 + 55 + resultSwatchSize + 65
      inputSwatchY2    == 2 * LAYOUT.contentTop + (LAYOUT.contentHeight - totalHeight) + 6
      topRowWidth      == inputSwatchSize * 3 + operatorGap * 4
      dyeAX2           == OG_DIMENSIONS.width - topRowWidth
      dyeBX2           == dyeAX2 + 2 * (inputSwatchSize + operatorGap + operatorGap)
      dyeCX2           == dyeBX2 + 2 * (inputSwatchSize + operatorGap + operatorGap)
      resultY2         == inputSwatchY2 + 2 * (inputSwatchSize + 25 + 55)
  IN  <<SwatchRect(dyeAX2, inputSwatchY2, inputSwatchSize),
        SwatchRect(dyeBX2, inputSwatchY2, inputSwatchSize),
        SwatchRect(dyeCX2, inputSwatchY2, inputSwatchSize),
        SwatchRect(OG_DIMENSIONS.width - resultSwatchSize, resultY2, resultSwatchSize)>>

\* The input card, the input swatch, one swatch per match in rows of four,
\* and the badge on the first match.
SwatchRects(numMatches) ==
  LET leftCardX       == LAYOUT.padding
      leftCardWidth   == 320
      leftCardHeight  == LAYOUT.contentHeight - 100
      leftCardY2      == 2 * LAYOUT.contentTop + (LAYOUT.contentHeight - leftCardHeight)
      inputSwatchSize == 180
      rightStartX     == leftCardX + leftCardWidth + 40
      rightWidth      == OG_DIMENSIONS.width - rightStartX - LAYOUT.padding
      matchSwatchSize == 110
      matchGap        == 18
      matchesPerRow   == 4
      totalMatchWidth == Min(numMatches, matchesPerRow) * matchSwatchSize
                         + (Min(numMatches, matchesPerRow) - 1) * matchGap
      matchStartX2    == 2 * rightStartX + (rightWidth - totalMatchWidth)
      matchStartY2    == 2 * LAYOUT.contentTop
                         + (LAYOUT.contentHeight - (matchSwatchSize + 40))
      X2(index)       == matchStartX2 + 2 * (index % matchesPerRow) * (matchSwatchSize + matchGap)
      Y2(index)       == matchStartY2 + 2 * (index \div matchesPerRow) * (matchSwatchSize + 65)
  IN  <<Rect(2 * leftCardX, leftCardY2, 2 * leftCardWidth, 2 * leftCardHeight, FALSE),
        SwatchRect(2 * leftCardX + (leftCardWidth - inputSwatchSize), leftCardY2 + 120,
                   inputSwatchSize)>>
      \o [k \in 1..numMatches |-> SwatchRect(X2(k - 1), Y2(k - 1), matchSwatchSize)]
      \o (IF numMatches > 0
          THEN <<Rect(X2(0) + 2 * (matchSwatchSize - 25), Y2(0) - 10, 60, 40, FALSE)>>
          ELSE <<>>)

\* One swatch per dye, from startX on.
ComparisonRects(numDyes, swatchSize, gap, startX) ==
  LET startY2 == 2 * LAYOUT.contentTop + (LAYOUT.contentHeight - (swatchSize + 90))
  IN  [k \in 1..numDyes |->
         SwatchRect(startX.twice + 2 * (k - 1) * (swatchSize + gap), startY2, swatchSize)]

\* The original swatches in the left column, the simulated ones in the right
\* column and the information box below.
AccessibilityRects(numDyes) ==
  LET swatchSize     == IF numDyes = 1 THEN 140 ELSE IF numDyes = 2 THEN 120
                        ELSE IF numDyes = 3 THEN 100 ELSE 85
      gap            == IF numDyes <= 2 THEN 20 ELSE 15
      columnWidth2   == OG_DIMENSIONS.width - LAYOUT.padding * 3
      leftColumnX2   == 2 * LAYOUT.padding
      rightColumnX2  == 2 * (LAYOUT.padding * 2) + columnWidth2
      totalHeight    == 25 + 20 + swatchSize + 30 + 25 + 80
      contentStartY2 == 2 * LAYOUT.contentTop + (LAYOUT.contentHeight - totalHeight) + 80
      totalWidth     == numDyes * swatchSize + (numDyes - 1) * gap
      swatchY2       == contentStartY2 + 2 * (25 + 20)
      Column(startX2) ==
        [k \in 1..numDyes |->
           SwatchRect(startX2 + 2 * (k - 1) * (swatchSize + gap), swatchY2, swatchSize)]
  IN  Column(leftColumnX2 + (columnWidth2 \div 2 - totalWidth))
      \o Column(rightColumnX2 + (columnWidth2 \div 2 - totalWidth))
      \o <<Rect(OG_DIMENSIONS.width - 500, swatchY2 + 2 * (swatchSize + 30 + 25), 1000, 160,
                FALSE)>>

(***************************************************************************)
(* The OG image generators.  A generator returns the layout it builds:     *)
(* which of its two layouts it is and the colours it draws, in drawing     *)
(* order; or it throws.                                                    *)
(***************************************************************************)
Threw == [threw |-> TRUE, layout |-> "none", colors |-> <<>>]

Layout(kind, colors) == [threw |-> FALSE, layout |-> kind, colors |-> colors]

\* Keys a lowercase route parameter finds on Object.prototype when it indexes
\* an object literal: the lookup yields a function or an object, not a string.
InheritedKeys == {"constructor", "__proto__"}

\* dyeIds.map(getDyeByItemId).filter(d => d !== undefined).slice(0, 4)
RECURSIVE LookupDyes(_, _)
LookupDyes(allDyes, dyeIds) ==
  IF Len(dyeIds) = 0 THEN <<>>
  ELSE LET d == getDyeByItemId(allDyes, dyeIds[1])
       IN  (IF d = NoDye THEN <<>> ELSE <<d>>) \o LookupDyes(allDyes, Tail(dyeIds))

\* The cap applied to the ids, before the unknown ones are dropped.
ResolveDyesCapFirst(allDyes, dyeIds) == LookupDyes(allDyes, ArraySlice(dyeIds, 4))

ResolveDyes(allDyes, dyeIds) == ArraySlice(LookupDyes(allDyes, dyeIds), 4)

HexOf(dyes) == [i \in 1..Len(dyes) |-> dyes[i].hex]

HarmonyFallbackColors ==
  <<<<"#", "e", "f", "4", "4", "4", "4">>,
     <<"#", "f", "9", "7", "3", "1", "6">>,
     <<"#", "e", "a", "b", "3", "0", "8">>,
     <<"#", "2", "2", "c", "5", "5", "e">>,
     <<"#", "3", "b", "8", "2", "f", "6">>,
     <<"#", "a", "8", "5", "5", "f", "7">>>>

generateFallbackHarmonyOG(harmonyType) ==
  IF harmonyType \in InheritedKeys THEN Threw
  ELSE Layout("fallback", HarmonyFallbackColors)

generateHarmonyOG(allDyes, dyeId, harmonyType) ==
  LET dye == getDyeByItemId(allDyes, dyeId)
  IN  IF dye = NoDye THEN generateFallbackHarmonyOG(harmonyType)
      ELSE LET Draw(matches) ==
                 LET shown == ArraySlice(matches, Min(Len(matches), 4))
                 IN  IF harmonyType \in InheritedKeys THEN Threw
                     ELSE Layout("populated",
                                 <<dye.hex>> \o [i \in 1..Len(shown) |-> shown[i].dye.hex])
                          @@ [rects |-> HarmonyRects(Len(shown))]
           IN  Draw(getHarmonyMatches(allDyes, dye, harmonyType))

GradientFallbackColors ==
  <<<<"#", "e", "f", "4", "4", "4", "4">>,
     <<"#", "e", "a", "b", "3", "0", "8">>,
     <<"#", "2", "2", "c", "5", "5", "e">>>>

generateFallbackGradientOG == Layout("fallback", GradientFallbackColors)

\* The generator that would compute a gradient of only the drawn length.
generateGradientOGRecomputed(allDyes, startDyeId, endDyeId, stepCount, strict) ==
  LET startDye == getDyeByItemId(allDyes, startDyeId)
      endDye   == getDyeByItemId(allDyes, endDyeId)
  IN  IF startDye = NoDye \/ endDye = NoDye THEN generateFallbackGradientOG
      ELSE LET Draw(gradientSteps) ==
                 IF \E k \in 1..Len(gradientSteps) :
                       DistanceThrows(allDyes, gradientSteps[k].hex, strict)
                 THEN Threw
                 ELSE Layout("populated",
                             [k \in 1..Len(gradientSteps) |-> gradientSteps[k].hex]
                             \o [k \in 1..Len(gradientSteps) |-> gradientSteps[k].hex])
           IN  Draw(generateGradientSteps(allDyes, startDye.hex, endDye.hex,
                                          Min(stepCount, 7)))

generateGradientOG(allDyes, startDyeId, endDyeId, stepCount, strict) ==
  LET startDye == getDyeByItemId(allDyes, startDyeId)
      endDye   == getDyeByItemId(allDyes, endDyeId)
  IN  IF startDye = NoDye \/ endDye = NoDye THEN generateFallbackGradientOG
      ELSE LET maxSwatches == Min(stepCount, 7)
               Draw(gradientSteps) ==
                 LET drawn == ArraySlice(gradientSteps, maxSwatches)
                 IN  IF \E k \in 1..Len(gradientSteps) :
                           DistanceThrows(allDyes, gradientSteps[k].hex, strict)
                     THEN Threw
                     ELSE Layout("populated",
                                 [k \in 1..Len(gradientSteps) |-> gradientSteps[k].hex]
                                 \o [k \in 1..Len(drawn) |-> drawn[k].hex])
                          @@ GradientGeometry(maxSwatches, Len(drawn), Len(gradientSteps))
           IN  Draw(generateGradientSteps(allDyes, startDye.hex, endDye.hex, stepCount))

MixerFallbackColors ==
  <<<<"#", "e", "f", "4", "4", "4", "4">>,
     <<"#", "3", "b", "8", "2", "f", "6">>,
     <<"#", "9", "7", "4", "7", "b", "a">>>>

\* The subtitle `${ratio}/${100 - ratio} Blend` and the subtitle '3-Dye Blend'.
RatioBlend(ratio) == [text |-> "Blend", first |-> ratio, second |-> 100 - ratio]

ThreeDyeBlend == [text |-> "3-Dye Blend"]

generateFallbackMixerOG(ratio, isThreeDye) ==
  Layout("fallback", MixerFallbackColors)
  @@ [subtitle |-> IF isThreeDye THEN ThreeDyeBlend ELSE RatioBlend(ratio)]

generateTwoDyeMixerOG(allDyes, dyeA, dyeB, ratio, strict) ==
  LET Draw(mixedHex) ==
        IF DistanceThrows(allDyes, mixedHex, strict) THEN Threw
        ELSE Layout("populated", <<dyeA.hex, dyeB.hex, mixedHex>>)
             @@ [dyes |-> 2, subtitle |-> RatioBlend(ratio), rects |-> TwoDyeMixerRects]
  IN  Draw(mixColors(dyeA.hex, dyeB.hex, ratio))

generateThreeDyeMixerOG(allDyes, dyeA, dyeB, dyeC, strict) ==
  LET Draw(mixedHex) ==
        IF DistanceThrows(allDyes, mixedHex, strict) THEN Threw
        ELSE Layout("populated", <<dyeA.hex, dyeB.hex, dyeC.hex, mixedHex>>)
             @@ [dyes |-> 3, subtitle |-> ThreeDyeBlend, rects |-> ThreeDyeMixerRects]
  IN  Draw(mixThreeColors(dyeA.hex, dyeB.hex, dyeC.hex))

\* The routing that sends a requested but unknown third dye to the fallback.
generateMixerOGAllOrNothing(allDyes, dyeAId, dyeBId, dyeCId, ratio, strict) ==
  LET dyeA == getDyeByItemId(allDyes, dyeAId)
      dyeB == getDyeByItemId(allDyes, dyeBId)
      dyeC == IF dyeCId # 0 THEN getDyeByItemId(allDyes, dyeCId) ELSE NoDye
  IN  IF dyeA = NoDye \/ dyeB = NoDye \/ (dyeCId # 0 /\ dyeC = NoDye)
      THEN generateFallbackMixerOG(ratio, dyeC # NoDye)
      ELSE IF dyeC # NoDye
           THEN generateThreeDyeMixerOG(allDyes, dyeA, dyeB, dyeC, strict)
      ELSE generateTwoDyeMixerOG(allDyes, dyeA, dyeB, ratio, strict)

\* dyeCId = 0 stands for an absent (or otherwise falsy) third id.
generateMixerOG(allDyes, dyeAId, dyeBId, dyeCId, ratio, strict) ==
  LET dyeA == getDyeByItemId(allDyes, dyeAId)
      dyeB == getDyeByItemId(allDyes, dyeBId)
      dyeC == IF dyeCId # 0 THEN getDyeByItemId(allDyes, dyeCId) ELSE NoDye
  IN  IF dyeA = NoDye \/ dyeB = NoDye THEN generateFallbackMixerOG(ratio, dyeC # NoDye)
      ELSE IF dyeCId # 0 /\ dyeC = NoDye
           THEN generateTwoDyeMixerOG(allDyes, dyeA, dyeB, ratio, strict)
      ELSE IF dyeC # NoDye
           THEN generateThreeDyeMixerOG(allDyes, dyeA, dyeB, dyeC, strict)
      ELSE generateTwoDyeMixerOG(allDyes, dyeA, dyeB, ratio, strict)

ComparisonFallbackColors ==
  <<<<"#", "F", "2", "F", "2", "F", "2">>,
     <<"#", "8", "A", "2", "A", "3", "7">>,
     <<"#", "2", "5", "2", "A", "4", "2">>,
     <<"#", "C", "8", "B", "3", "7", "4">>>>

generateFallbackComparisonOG == Layout("fallback", ComparisonFallbackColors)

\* The size chain with its last two cases merged.
ComparisonSwatchSizeCoarse(numDyes) ==
  IF numDyes = 1 THEN 220 ELSE IF numDyes = 2 THEN 180 ELSE 130

ComparisonSwatchSize(numDyes) ==
  IF numDyes = 1 THEN 220 ELSE IF numDyes = 2 THEN 180 ELSE IF numDyes = 3 THEN 150 ELSE 130

ComparisonGap(numDyes) == IF numDyes <= 2 THEN 50 ELSE IF numDyes = 3 THEN 35 ELSE 25

\* The populated layout also carries its geometry: startX and the x of each
\* swatch are numbers that may be halves.
generateComparisonOG(allDyes, dyeIds) ==
  LET dyes == ResolveDyes(allDyes, dyeIds)
  IN  IF Len(dyes) = 0 THEN generateFallbackComparisonOG
      ELSE LET numDyes    == Len(dyes)
               swatchSize == ComparisonSwatchSize(numDyes)
               gap        == ComparisonGap(numDyes)
               totalWidth == numDyes * swatchSize + (numDyes - 1) * gap
               startX     == JsHalves(OG_DIMENSIONS.width - totalWidth)
           IN  Layout("populated", HexOf(dyes))
               @@ [swatchSize |-> swatchSize,
                   gap        |-> gap,
                   startX     |-> startX,
                   rects      |-> ComparisonRects(numDyes, swatchSize, gap, startX),
                   xs         |-> [i \in 1..numDyes |->
                                    JsHalves(startX.twice + 2 * (i - 1) * (swatchSize + gap))]]

AccessibilityExampleColors ==
  <<<<"#", "e", "f", "4", "4", "4", "4">>,
     <<"#", "2", "2", "c", "5", "5", "e">>,
     <<"#", "3", "b", "8", "2", "f", "6">>,
     <<"#", "e", "a", "b", "3", "0", "8">>>>

generateFallbackAccessibilityOG(visionType) ==
  IF SimulateThrows(visionType) THEN Threw
  ELSE Layout("fallback",
              AccessibilityExampleColors
              \o [i \in 1..Len(AccessibilityExampleColors) |->
                    simulateColorVision(AccessibilityExampleColors[i], visionType)])

generateAccessibilityOG(allDyes, dyeIds, visionType) ==
  LET dyes == ResolveDyes(allDyes, dyeIds)
  IN  IF Len(dyes) = 0 THEN generateFallbackAccessibilityOG(visionType)
      ELSE IF SimulateThrows(visionType) THEN Threw
      ELSE Layout("populated",
                  HexOf(dyes)
                  \o [i \in 1..Len(dyes) |-> simulateColorVision(dyes[i].hex, visionType)])
           @@ [rects |-> AccessibilityRects(Len(dyes))]

SwatchFallbackColors ==
  <<<<"#", "8", "B", "4", "5", "1", "3">>,
     <<"#", "4", "1", "6", "9", "E", "1">>,
     <<"#", "2", "2", "8", "B", "2", "2">>,
     <<"#", "D", "C", "1", "4", "3", "C">>,
     <<"#", "F", "F", "D", "7", "0", "0">>>>

\* A swatch layout also records the colour computations performed on the
\* way to it.
generateFallbackSwatchOG ==
  Layout("fallback", SwatchFallbackColors) @@ [performed |-> {}]

\* The test that looks at the length only.
SwatchColorTestLengthOnly(hexColor) == Len(hexColor) = 7

\* /^#[0-9A-Fa-f]{6}$/.test(hexColor)
SwatchColorTest(hexColor) ==
  Len(hexColor) = 7 /\ hexColor[1] = "#" /\ IsSixDigits(Tail(hexColor))

\* The limit with its lower bound only.
MatchLimitUncapped(limit) == Max(limit, 1)

MatchLimit(limit) == Min(Max(limit, 1), 4)

\* topMatches is the N of the 'TOP N MATCHES' label; the colours drawn are
\* the input swatch and then one swatch per match.
generateSwatchOG(allDyes, color, limit) ==
  LET hexColor == IF StartsWithHash(color) THEN color ELSE <<"#">> \o color
  IN  IF ~SwatchColorTest(hexColor) THEN generateFallbackSwatchOG
      ELSE LET matchLimit == MatchLimit(limit)
               Draw(matches) ==
                 Layout("populated",
                        <<hexColor>> \o [i \in 1..Len(matches) |-> matches[i].dye.hex])
                 @@ [topMatches |-> Len(matches),
                     rects      |-> SwatchRects(Len(matches)),
                     performed  |-> {"findClosestDyesWithDistance", "getContrastTextColor",
                                     "parseInt", "findCharacterColorByHex"}]
           IN  Draw(findClosestDyesWithDistance(allDyes, hexColor, matchLimit, {}))

(***************************************************************************)
(* Conversion specification: the initial state holds the arguments of one  *)
(* call, the step applies the conversion to them.                          *)
(***************************************************************************)
ColorCalls ==
  {[op |-> "hexToRgb", hex |-> h] : h \in HexInputs}
  \cup {[op |-> "rgbToHex", r |-> r, g |-> g, b |-> b] :
          r \in NumberInputs, g \in NumberInputs, b \in NumberInputs}

InitColor ==
  /\ palette = DefaultPalette
  /\ call \in ColorCalls
  /\ ret = NoRet
  /\ pc = "call"
  /\ served = <<>>
  /\ RendererUnused

CallHexToRgb ==
  /\ pc = "call"
  /\ call.op = "hexToRgb"
  /\ ret' = [threw |-> FALSE, rgb |-> hexToRgb(call.hex)]
  /\ pc' = "done"
  /\ UNCHANGED <<palette, call, served, rendererVars>>

CallRgbToHex ==
  /\ pc = "call"
  /\ call.op = "rgbToHex"
  /\ ret' = [threw |-> FALSE, hex |-> rgbToHex(call.r, call.g, call.b)]
  /\ pc' = "done"
  /\ UNCHANGED <<palette, call, served, rendererVars>>

NextColor == CallHexToRgb \/ CallRgbToHex

SpecColor == InitColor /\ [][NextColor]_vars

(***************************************************************************)
(* Generator specification: the initial state holds a palette and the      *)
(* options of one generator call as a route hands them over, the step      *)
(* runs the generator.  Item id 0 stands for an id parseInt could not      *)
(* read (NaN): it resolves to no dye and is falsy.                         *)
(***************************************************************************)
MathColors == {<<"#", "F", "F", "F", "F", "F", "F">>,
               <<"#", "0", "0", "0", "0", "0", "0">>,
               <<"#", "F", "F", "0", "0", "0", "0">>,
               <<"a", "4", "2", "0", "0", "e">>,
               <<"#", "0", "0", "2", "4", "0", "c">>}

\* Arguments of simulateColorVision: colours, and a string that is none.
SimulateInputs ==
  MathColors \cup {<<"#", "0", "a", "7", "F", "F", "f">>,
                   <<"f", "f", "0", "0", "0", "0">>,
                   <<"x", "y">>}

OGPalettes == {SubSeq(DyePool, 1, n) : n \in 1..Min(MaxPalette, Len(DyePool))}

ItemIds == {0, 11, 12, 14, 99}

GradientColors == {<<"#", "0", "0", "0", "0", "0", "0">>,
                   <<"#", "F", "F", "F", "F", "F", "F">>,
                   <<"f", "f", "0", "0", "0", "0">>,
                   <<"#", "0", "a", "7", "F", "F", "f">>}

StepCounts == (-1)..MaxSteps

Ratios == {-10, 0, 30, 50, 90, 100, 150}

RouteHarmonyTypes == HarmonyTypes \cup InheritedKeys

RouteVisionTypes == VisionTypes \cup {"foo", "constructor"}

IdLists ==
  UNION {[1..n -> {11, 14, 99}] : n \in 0..MaxIds}
  \cup {<<11, 99, 12, 13, 14, 15>>, <<12, 11, 13, 14, 15, 16>>}

SwatchColors == TargetColors \cup {<<"#", "1", "2", "3", "4", "5">>, <<"f", "f", "0", "0", "z", "z">>}

OGCalls ==
  {[op |-> "gradientSteps", startHex |-> a, endHex |-> b, stepCount |-> n, strict |-> st] :
     a \in GradientColors, b \in GradientColors, n \in StepCounts, st \in BOOLEAN}
  \cup {[op |-> "harmony", dyeId |-> d, harmonyType |-> t] :
          d \in ItemIds, t \in RouteHarmonyTypes}
  \cup {[op |-> "gradient", startDyeId |-> a, endDyeId |-> b, stepCount |-> n, strict |-> st] :
          a \in ItemIds, b \in ItemIds, n \in StepCounts, st \in BOOLEAN}
  \cup {[op |-> "mixer", dyeAId |-> a, dyeBId |-> b, dyeCId |-> c, ratio |-> r, strict |-> st] :
          a \in ItemIds, b \in ItemIds, c \in ItemIds, r \in Ratios, st \in BOOLEAN}
  \cup {[op |-> "swatch", color |-> h, limit |-> l] :
          h \in SwatchColors, l \in (-1)..MaxLimit}
  \cup {[op |-> "simulateColorVision", hex |-> h, visionType |-> v] :
          h \in SimulateInputs, v \in RouteVisionTypes}
  \cup {[op |-> "comparison", dyeIds |-> ids] : ids \in IdLists}
  \cup {[op |-> "accessibility", dyeIds |-> ids, visionType |-> v] :
          ids \in IdLists, v \in RouteVisionTypes}

InitOG ==
  /\ palette \in OGPalettes
  /\ call \in OGCalls
  /\ ret = NoRet
  /\ pc = "call"
  /\ served = <<>>
  /\ RendererUnused

CallGradientSteps ==
  /\ pc = "call"
  /\ call.op = "gradientSteps"
  /\ LET Result(steps) ==
           IF \E k \in 1..Len(steps) : DistanceThrows(palette, steps[k].hex, call.strict)
           THEN [threw |-> TRUE, steps |-> <<>>]
           ELSE [threw |-> FALSE, steps |-> steps]
     IN  ret' = Result(generateGradientSteps(palette, call.startHex, call.endHex,
                                             call.stepCount))
  /\ pc' = "done"
  /\ UNCHANGED <<palette, call, served, rendererVars>>

CallHarmonyOG ==
  /\ pc = "call"
  /\ call.op = "harmony"
  /\ ret' = generateHarmonyOG(palette, call.dyeId, call.harmonyType)
  /\ pc' = "done"
  /\ UNCHANGED <<palette, call, served, rendererVars>>

CallGradientOG ==
  /\ pc = "call"
  /\ call.op = "gradient"
  /\ ret' = generateGradientOG(palette, call.startDyeId, call.endDyeId, call.stepCount,
                               call.strict)
  /\ pc' = "done"
  /\ UNCHANGED <<palette, call, served, rendererVars>>

CallMixerOG ==
  /\ pc = "call"
  /\ call.op = "mixer"
  /\ ret' = generateMixerOG(palette, call.dyeAId, call.dyeBId, call.dyeCId, call.ratio,
                            call.strict)
  /\ pc' = "done"
  /\ UNCHANGED <<palette, call, served, rendererVars>>

CallSwatchOG ==
  /\ pc = "call"
  /\ call.op = "swatch"
  /\ ret' = generateSwatchOG(palette, call.color, call.limit)
  /\ pc' = "done"
  /\ UNCHANGED <<palette, call, served, rendererVars>>

CallComparisonOG ==
  /\ pc = "call"
  /\ call.op = "comparison"
  /\ ret' = generateComparisonOG(palette, call.dyeIds)
  /\ pc' = "done"
  /\ UNCHANGED <<palette, call, served, rendererVars>>

CallAccessibilityOG ==
  /\ pc = "call"
  /\ call.op = "accessibility"
  /\ ret' = generateAccessibilityOG(palette, call.dyeIds, call.visionType)
  /\ pc' = "done"
  /\ UNCHANGED <<palette, call, served, rendererVars>>

CallSimulateColorVision ==
  /\ pc = "call"
  /\ call.op = "simulateColorVision"
  /\ ret' = IF SimulateThrows(call.visionType) THEN [threw |-> TRUE, hex |-> <<>>]
            ELSE [threw |-> FALSE, hex |-> simulateColorVision(call.hex, call.visionType)]
  /\ pc' = "done"
  /\ UNCHANGED <<palette, call, served, rendererVars>>

NextOG ==
  \/ CallSimulateColorVision
  \/ CallGradientSteps
  \/ CallHarmonyOG
  \/ CallGradientOG
  \/ CallMixerOG
  \/ CallSwatchOG
  \/ CallComparisonOG
  \/ CallAccessibilityOG

SpecOG == InitOG /\ [][NextOG]_vars

(***************************************************************************)
(* Colour arithmetic specification: the initial state holds the arguments  *)
(* of one call of mixColors or mixThreeColors, the step applies the        *)
(* function.                                                               *)
(***************************************************************************)
\* ratio is a percentage: mixRatio = ratio / 100.
PercentScale == 100

MathCalls ==
  {[op |-> "mixColors", color1 |-> a, color2 |-> b, ratio |-> r] :
     a \in MathColors, b \in MathColors, r \in 0..PercentScale}
  \cup {[op |-> "mixThreeColors", color1 |-> a, color2 |-> b, color3 |-> c] :
          a \in MathColors, b \in MathColors, c \in MathColors}

InitMath ==
  /\ palette = DefaultPalette
  /\ call \in MathCalls
  /\ ret = NoRet
  /\ pc = "call"
  /\ served = <<>>
  /\ RendererUnused

CallMixColors ==
  /\ pc = "call"
  /\ call.op = "mixColors"
  /\ ret' = [threw |-> FALSE, hex |-> mixColors(call.color1, call.color2, call.ratio)]
  /\ pc' = "done"
  /\ UNCHANGED <<palette, call, served, rendererVars>>

CallMixThreeColors ==
  /\ pc = "call"
  /\ call.op = "mixThreeColors"
  /\ ret' = [threw |-> FALSE,
             hex |-> mixThreeColors(call.color1, call.color2, call.color3)]
  /\ pc' = "done"
  /\ UNCHANGED <<palette, call, served, rendererVars>>

NextMath == CallMixColors \/ CallMixThreeColors

SpecMath == InitMath /\ [][NextMath]_vars

(***************************************************************************)
(* Session specification: one worker isolate answers a sequence of calls   *)
(* against the palette snapshot loaded with the module.  The generators    *)
(* are synchronous, so calls of concurrent requests run one after another  *)
(* in some order; served logs each call with its result.                   *)
(***************************************************************************)
MaxCalls == 3

\* The search that sorts the snapshot itself instead of the array it built.
SnapshotSortedInPlace(allDyes, hex) ==
  LET Dyes(sorted) == [i \in 1..Len(sorted) |-> sorted[i].dye]
  IN  Dyes(SortByDistance([i \in 1..Len(allDyes) |->
                             [dye |-> allDyes[i],
                              distance |-> getDeltaE_Oklab(hex, allDyes[i].hex)]], <<>>))

\* The snapshot after one findClosestDyesWithDistance: filter and map build
\* new arrays and sort works in place on the last of them.
SnapshotAfterSearch(allDyes, hex) == allDyes

RECURSIVE SnapshotAfterSearches(_, _)
SnapshotAfterSearches(allDyes, hexes) ==
  IF Len(hexes) = 0 THEN allDyes
  ELSE SnapshotAfterSearches(SnapshotAfterSearch(allDyes, hexes[1]), Tail(hexes))

SessionPalettes ==
  {SubSeq(pool, 1, Min(MaxPalette, Len(pool))) : pool \in {DyePool, Reverse(DyePool)}}

SessionCalls ==
  {[op |-> "findClosest", hex |-> h, limit |-> l, excludeIds |-> {}] :
     h \in {<<"#", "F", "E", "0", "0", "0", "0">>, <<"#", "0", "0", "0", "0", "0", "0">>},
     l \in {1, 3}}
  \cup {[op |-> "harmony", dyeId |-> 12, harmonyType |-> "monochromatic"],
        [op |-> "harmony", dyeId |-> 99, harmonyType |-> "triadic"],
        [op |-> "gradient", startDyeId |-> 12, endDyeId |-> 14, stepCount |-> 3,
         strict |-> FALSE],
        [op |-> "mixer", dyeAId |-> 12, dyeBId |-> 14, dyeCId |-> 13, ratio |-> 50,
         strict |-> FALSE],
        [op |-> "comparison", dyeIds |-> <<12, 14>>],
        [op |-> "accessibility", dyeIds |-> <<12, 14>>, visionType |-> "protanopia"]}

InitSession ==
  /\ palette \in SessionPalettes
  /\ call \in SessionCalls
  /\ ret = NoRet
  /\ pc = "call"
  /\ served = <<>>
  /\ RendererUnused

\* The call returns result after searching the palette for each of hexes.
Serve(result, hexes) ==
  /\ ret' = result
  /\ palette' = SnapshotAfterSearches(palette, hexes)
  /\ served' = Append(served, [call |-> call, ret |-> result])
  /\ pc' = "done"
  /\ UNCHANGED <<call, rendererVars>>

ServeFindClosest ==
  /\ pc = "call"
  /\ call.op = "findClosest"
  /\ Serve([threw |-> FALSE,
            matches |-> findClosestDyesWithDistance(palette, call.hex, call.limit,
                                                    call.excludeIds)],
           <<call.hex>>)

\* Only the monochromatic and shades schemes search by distance.
ServeHarmonyOG ==
  /\ pc = "call"
  /\ call.op = "harmony"
  /\ LET Searched(result) ==
           IF result.layout = "populated" /\ call.harmonyType \in ClosestSchemes
           THEN <<result.colors[1]>> ELSE <<>>
         Answer(result) == Serve(result, Searched(result))
     IN  Answer(generateHarmonyOG(palette, call.dyeId, call.harmonyType))

\* One search per gradient step.
ServeGradientOG ==
  /\ pc = "call"
  /\ call.op = "gradient"
  /\ LET Searched(result) ==
           IF result.layout = "populated"
           THEN SubSeq(result.colors, 1, call.stepCount) ELSE <<>>
         Answer(result) == Serve(result, Searched(result))
     IN  Answer(generateGradientOG(palette, call.startDyeId, call.endDyeId,
                                   call.stepCount, call.strict))

\* One search, for the blended colour.
ServeMixerOG ==
  /\ pc = "call"
  /\ call.op = "mixer"
  /\ LET Searched(result) ==
           IF result.layout = "populated"
           THEN <<result.colors[Len(result.colors)]>> ELSE <<>>
         Answer(result) == Serve(result, Searched(result))
     IN  Answer(generateMixerOG(palette, call.dyeAId, call.dyeBId, call.dyeCId,
                                call.ratio, call.strict))

ServeComparisonOG ==
  /\ pc = "call"
  /\ call.op = "comparison"
  /\ Serve(generateComparisonOG(palette, call.dyeIds), <<>>)

ServeAccessibilityOG ==
  /\ pc = "call"
  /\ call.op = "accessibility"
  /\ Serve(generateAccessibilityOG(palette, call.dyeIds, call.visionType), <<>>)

\* The next call arrives.
NextRequest ==
  /\ pc = "done"
  /\ Len(served) < MaxCalls
  /\ call' \in SessionCalls
  /\ ret' = NoRet
  /\ pc' = "call"
  /\ UNCHANGED <<palette, served, rendererVars>>

NextSession ==
  \/ ServeFindClosest
  \/ ServeHarmonyOG
  \/ ServeGradientOG
  \/ ServeMixerOG
  \/ ServeComparisonOG
  \/ ServeAccessibilityOG
  \/ NextRequest

SpecSession == InitSession /\ [][NextSession]_vars

(***************************************************************************)
(* Renderer specification (renderer.ts).  Every task is one call of        *)
(* initRenderer, renderSvgToPng or renderOGImage; a step runs a call from  *)
(* one await to the next.  Settling wasmInitPromise hands its outcome to   *)
(* the calls that await it; each of them continues in a step of its own.   *)
(***************************************************************************)
MaxTasks == 3

RendererCalls == {"initRenderer", "renderSvgToPng", "renderOGImage"}

IdleTask == [kind |-> "none", pc |-> "idle", late |-> FALSE, rendered |-> FALSE, status |-> 0]

NoCall == [op |-> "none"]

InitRendererSpec ==
  /\ palette = DefaultPalette
  /\ call = NoCall
  /\ ret = NoRet
  /\ pc = "done"
  /\ served = <<>>
  /\ RendererLoaded
  /\ tasks = [t \in 1..MaxTasks |-> IdleTask]

\* An initialisation that every call starts again while one is in flight.
InitInFlightIgnored == FALSE

\* if (wasmInitPromise)
InitInFlight == wasmInitPromise # "null"

\* A catch block that clears wasmInitPromise so that the next call retries.
PromiseCleared == "null"

\* The catch block rethrows and leaves wasmInitPromise set to the promise
\* that has rejected.
PromiseAfterFailure == "rejected"

\* initRenderer up to its first await, run by task t as a call of kind.
EnterInitRenderer(t, kind) ==
  /\ tasks[t].pc = "idle"
  /\ LET Entered(where) ==
           [tasks EXCEPT ![t] = [IdleTask EXCEPT !.kind = kind, !.pc = where,
                                                 !.late = wasmInitPromise = "rejected"]]
     IN  IF wasmInitialized
         THEN /\ tasks' = Entered("initDone")
              /\ UNCHANGED <<wasmInitPromise, initStarts>>
         ELSE IF InitInFlight
         THEN /\ tasks' = Entered(CASE wasmInitPromise = "fulfilled" -> "initDone"
                                    [] wasmInitPromise = "rejected"  -> "initFailed"
                                    [] OTHER                         -> "awaitInit")
              /\ UNCHANGED <<wasmInitPromise, initStarts>>
         ELSE /\ wasmInitPromise' = "pending"
              /\ initStarts' = initStarts + 1
              /\ tasks' = Entered("awaitInit")
  /\ UNCHANGED <<palette, call, ret, pc, served, wasmInitialized>>

CallInitRenderer == \E t \in 1..MaxTasks : EnterInitRenderer(t, "initRenderer")

CallRenderSvgToPng == \E t \in 1..MaxTasks : EnterInitRenderer(t, "renderSvgToPng")

CallRenderOGImage == \E t \in 1..MaxTasks : EnterInitRenderer(t, "renderOGImage")

\* The calls that await wasmInitPromise get its outcome.
Settled(where) ==
  [t \in 1..MaxTasks |->
     IF tasks[t].pc = "awaitInit" THEN [tasks[t] EXCEPT !.pc = where] ELSE tasks[t]]

\* await initWasm(resvgWasm) resolves: wasmInitialized = true.
InitWasmResolves ==
  /\ wasmInitPromise = "pending"
  /\ wasmInitialized' = TRUE
  /\ wasmInitPromise' = "fulfilled"
  /\ tasks' = Settled("initDone")
  /\ UNCHANGED <<palette, call, ret, pc, served, initStarts>>

\* await initWasm(resvgWasm) rejects: the catch block throws.
InitWasmRejects ==
  /\ wasmInitPromise = "pending"
  /\ wasmInitPromise' = PromiseAfterFailure
  /\ tasks' = Settled("initFailed")
  /\ UNCHANGED <<palette, call, ret, pc, served, wasmInitialized, initStarts>>

\* initRenderer returns to its caller, or throws.
InitRendererReturns ==
  \E t \in 1..MaxTasks :
    /\ tasks[t].kind = "initRenderer"
    /\ tasks[t].pc \in {"initDone", "initFailed"}
    /\ tasks' = [tasks EXCEPT ![t].pc = IF tasks[t].pc = "initDone" THEN "resolved"
                                        ELSE "rejected"]
    /\ UNCHANGED <<palette, call, ret, pc, served, wasmInitialized, wasmInitPromise,
                   initStarts>>

\* renderSvgToPng after await initRenderer(): the rejection passes through;
\* otherwise new Resvg(...).render().asPng() returns the buffer or throws.
RenderSvgToPngContinues ==
  \E t \in 1..MaxTasks : \E ok \in BOOLEAN :
    /\ tasks[t].kind = "renderSvgToPng"
    /\ tasks[t].pc \in {"initDone", "initFailed"}
    /\ tasks' = [tasks EXCEPT ![t] =
                   IF tasks[t].pc = "initFailed" THEN [@ EXCEPT !.pc = "rejected"]
                   ELSE [@ EXCEPT !.pc = IF ok THEN "resolved" ELSE "rejected",
                                  !.rendered = TRUE]]
    /\ UNCHANGED <<palette, call, ret, pc, served, wasmInitialized, wasmInitPromise,
                   initStarts>>

\* renderOGImage: the PNG response, or the catch block's 500 text/plain.
RenderOGImageContinues ==
  \E t \in 1..MaxTasks : \E ok \in BOOLEAN :
    /\ tasks[t].kind = "renderOGImage"
    /\ tasks[t].pc \in {"initDone", "initFailed"}
    /\ tasks' = [tasks EXCEPT ![t] =
                   IF tasks[t].pc = "initFailed"
                   THEN [@ EXCEPT !.pc = "resolved", !.status = 500]
                   ELSE [@ EXCEPT !.pc = "resolved", !.rendered = TRUE,
                                  !.status = IF ok THEN 200 ELSE 500]]
    /\ UNCHANGED <<palette, call, ret, pc, served, wasmInitialized, wasmInitPromise,
                   initStarts>>

NextRenderer ==
  \/ CallInitRenderer
  \/ CallRenderSvgToPng
  \/ CallRenderOGImage
  \/ InitWasmResolves
  \/ InitWasmRejects
  \/ InitRendererReturns
  \/ RenderSvgToPngContinues
  \/ RenderOGImageContinues

SpecRenderer == InitRendererSpec /\ [][NextRenderer]_vars

(***************************************************************************)
(* Character colour lookup (dye-helpers.ts).  The colour sheets belong to  *)
(* CharacterColorService of @xivdyetools/core: every entry carries its     *)
(* 0-based index in its sheet and its hex colour.  They stand here as      *)
(* sheets of SheetSize(n) colours, the colour at index k of sheet n being  *)
(* '#' followed by n, k and 00 in two hexadecimal digits each.             *)
(***************************************************************************)
UpperChar(c) ==
  IF \E v \in 11..16 : LowerDigits[v] = c
  THEN UpperDigits[CHOOSE v \in 11..16 : LowerDigits[v] = c]
  ELSE c

ToUpperCase(s) == [i \in 1..Len(s) |-> UpperChar(s[i])]

SHARED_CATEGORIES ==
  <<"eyeColors", "highlightColors", "lipColorsDark", "lipColorsLight", "tattooColors",
    "facePaintColorsDark", "facePaintColorsLight">>

SHARED_CATEGORY_NAMES ==
  [c \in Range(SHARED_CATEGORIES) |->
     CASE c = "eyeColors"            -> "Eye Colors"
       [] c = "highlightColors"      -> "Highlights"
       [] c = "lipColorsDark"        -> "Lip Colors (Dark)"
       [] c = "lipColorsLight"       -> "Lip Colors (Light)"
       [] c = "tattooColors"         -> "Tattoo/Limbal"
       [] c = "facePaintColorsDark"  -> "Face Paint (Dark)"
       [] c = "facePaintColorsLight" -> "Face Paint (Light)"]

ALL_SUBRACES ==
  <<"Midlander", "Highlander", "Wildwood", "Duskwight", "Plainsfolk", "Dunesfolk",
    "SeekerOfTheSun", "KeeperOfTheMoon", "SeaWolf", "Hellsguard", "Raen", "Xaela",
    "Rava", "Veena", "Helion", "TheLost">>

GENDERS == <<"Male", "Female">>

IndexOf(seq, x) == CHOOSE i \in 1..Len(seq) : seq[i] = x

MaxSheet == 20

\* Odd sheets are longer than two rows of the grid, even ones hold a row
\* and a bit.
SheetSize(n) == IF n % 2 = 1 THEN MaxSheet ELSE 9

SheetColor(n, k) ==
  <<"#">> \o PadStart2(ToString16(JsInt(n))) \o PadStart2(ToString16(JsInt(k)))
          \o <<"0", "0">>

Sheet(n) == [i \in 1..SheetSize(n) |-> [index |-> i - 1, hex |-> SheetColor(n, i - 1)]]

\* characterColorService.getSharedColors(category); a name that is no
\* category has no colours.
getSharedColors(category) ==
  IF category \in Range(SHARED_CATEGORIES)
  THEN Sheet(IndexOf(SHARED_CATEGORIES, category)) ELSE <<>>

RaceSheet(subrace, gender) ==
  Len(SHARED_CATEGORIES) + 4 * (IndexOf(ALL_SUBRACES, subrace) - 1)
  + 2 * (IndexOf(GENDERS, gender) - 1)

\* characterColorService.getHairColors / getSkinColors(subrace, gender).
getHairColors(subrace, gender) ==
  IF subrace \in Range(ALL_SUBRACES) /\ gender \in Range(GENDERS)
  THEN Sheet(RaceSheet(subrace, gender) + 1) ELSE <<>>

getSkinColors(subrace, gender) ==
  IF subrace \in Range(ALL_SUBRACES) /\ gender \in Range(GENDERS)
  THEN Sheet(RaceSheet(subrace, gender) + 2) ELSE <<>>

\* colors.find((c) => c.hex.toUpperCase() === normalizedHex): the position of
\* the first such entry, 0 for undefined.
FindColor(colors, normalizedHex) ==
  IF \E i \in 1..Len(colors) : ToUpperCase(colors[i].hex) = normalizedHex
  THEN CHOOSE i \in 1..Len(colors) :
         /\ ToUpperCase(colors[i].hex) = normalizedHex
         /\ \A j \in 1..(i - 1) : ToUpperCase(colors[j].hex) # normalizedHex
  ELSE 0

NormalizedHex(hex) ==
  IF StartsWithHash(hex) THEN ToUpperCase(hex) ELSE <<"#">> \o ToUpperCase(hex)

\* A column counted from 0.
GridColZeroBased(index) == JsRem(index, 8)

\* (found.index % 8) + 1
GridCol(index) == JsRem(index, 8) + 1

\* Math.floor(found.index / 8) + 1
GridRow(index) == (index \div 8) + 1

NotFound == [found |-> FALSE]

Lookup(categoryName, entry) ==
  [found |-> TRUE, categoryName |-> categoryName, index |-> entry.index,
   row |-> GridRow(entry.index), col |-> GridCol(entry.index)]

\* The loop over the shared categories from position c on.
RECURSIVE SearchShared(_, _)
SearchShared(normalizedHex, c) ==
  IF c > Len(SHARED_CATEGORIES) THEN NotFound
  ELSE LET Found(colors, i) ==
             IF i # 0 THEN Lookup(SHARED_CATEGORY_NAMES[SHARED_CATEGORIES[c]], colors[i])
             ELSE SearchShared(normalizedHex, c + 1)
           In(colors) == Found(colors, FindColor(colors, normalizedHex))
       IN  In(getSharedColors(SHARED_CATEGORIES[c]))

\* The loops over subraces and genders, from the pair (s, g) on: hair first,
\* then skin.
RECURSIVE SearchRaces(_, _, _)
SearchRaces(normalizedHex, s, g) ==
  IF s > Len(ALL_SUBRACES) THEN NotFound
  ELSE IF g > Len(GENDERS) THEN SearchRaces(normalizedHex, s + 1, 1)
  ELSE LET Found(hair, h, skin, k) ==
             IF h # 0 THEN Lookup("Hair Colors", hair[h])
             ELSE IF k # 0 THEN Lookup("Skin Colors", skin[k])
             ELSE SearchRaces(normalizedHex, s, g + 1)
           In(hair, skin) ==
             Found(hair, FindColor(hair, normalizedHex), skin, FindColor(skin, normalizedHex))
       IN  In(getHairColors(ALL_SUBRACES[s], GENDERS[g]),
              getSkinColors(ALL_SUBRACES[s], GENDERS[g]))

findCharacterColorByHex(hex) ==
  LET Search(normalizedHex) ==
        LET Shared(found) ==
              IF found.found THEN found ELSE SearchRaces(normalizedHex, 1, 1)
        IN  Shared(SearchShared(normalizedHex, 1))
  IN  Search(NormalizedHex(hex))

\* subrace / gender "" stand for an absent argument.
getCharacterColorFromSheet(hex, sheet, subrace, gender) ==
  LET isRaceSpecific == sheet \in {"hairColors", "skinColors"}
      FromSheet(normalizedHex, sheetName, colors) ==
        LET Found(i) ==
              IF i = 0 THEN NotFound
              ELSE Lookup(sheetName, colors[i])
                   @@ [isRaceSpecific |-> isRaceSpecific]
        IN  Found(FindColor(colors, normalizedHex))
      Fallback(found) ==
        IF found.found THEN found @@ [isRaceSpecific |-> TRUE] ELSE NotFound
  IN  IF isRaceSpecific
      THEN IF subrace = "" \/ gender = ""
           THEN Fallback(findCharacterColorByHex(NormalizedHex(hex)))
           ELSE FromSheet(NormalizedHex(hex),
                          IF sheet = "hairColors" THEN "Hair Colors" ELSE "Skin Colors",
                          IF sheet = "hairColors" THEN getHairColors(subrace, gender)
                          ELSE getSkinColors(subrace, gender))
      ELSE FromSheet(NormalizedHex(hex),
                     IF sheet \in Range(SHARED_CATEGORIES) THEN SHARED_CATEGORY_NAMES[sheet]
                     ELSE sheet,
                     getSharedColors(sheet))

(***************************************************************************)
(* Lookup specification: the initial state holds the arguments of one      *)
(* lookup, the step performs it.                                           *)
(***************************************************************************)
LookupIndexes == {0, 7, 8, 15, 16, MaxSheet - 1}

LookupSubraces == {"", "Midlander", "TheLost"}

LookupGenders == {"", "Male", "Female"}

\* Colours of the first shared sheets and of the first and last race sheets,
\* as stored and in lowercase without '#'.
LookupColors ==
  UNION {{SheetColor(n, k), Tail(ToLowerCase(SheetColor(n, k)))} :
           n \in {1, 2, 8, 9, 70, 71}, k \in LookupIndexes}

LookupSheets == {"eyeColors", "highlightColors", "hairColors", "skinColors"}

LookupCalls ==
  {[op |-> "findCharacterColorByHex", hex |-> h] : h \in LookupColors}
  \cup {[op |-> "getCharacterColorFromSheet", hex |-> h, sheet |-> s, subrace |-> r,
         gender |-> g] :
          h \in LookupColors, s \in LookupSheets, r \in LookupSubraces, g \in LookupGenders}

InitLookup ==
  /\ palette = DefaultPalette
  /\ call \in LookupCalls
  /\ ret = NoRet
  /\ pc = "call"
  /\ served = <<>>
  /\ RendererUnused

CallFindCharacterColorByHex ==
  /\ pc = "call"
  /\ call.op = "findCharacterColorByHex"
  /\ ret' = findCharacterColorByHex(call.hex)
  /\ pc' = "done"
  /\ UNCHANGED <<palette, call, served, rendererVars>>

CallGetCharacterColorFromSheet ==
  /\ pc = "call"
  /\ call.op = "getCharacterColorFromSheet"
  /\ ret' = getCharacterColorFromSheet(call.hex, call.sheet, call.subrace, call.gender)
  /\ pc' = "done"
  /\ UNCHANGED <<palette, call, served, rendererVars>>

NextLookup == CallFindCharacterColorByHex \/ CallGetCharacterColorFromSheet

SpecLookup == InitLookup /\ [][NextLookup]_vars

(***************************************************************************)
(* Name labels.  Every layout shortens a dye name where it draws it:       *)
(* name.length > threshold ? name.slice(0, keep) + '..' : name.            *)
(***************************************************************************)
Truncated(name, threshold, keep) ==
  IF Len(name) > threshold THEN Slice(name, 0, keep) \o <<".", ".">> ELSE name

LabelSites == {"gradient", "harmony", "mixer", "mixer3", "mixer3Match", "swatch",
               "accessibility", "comparison"}

\* The label each layout draws for a dye of that name.
NameLabel(site, name) ==
  CASE site = "gradient"      -> Truncated(name, 10, 9)
    [] site = "harmony"       -> Truncated(name, 14, 12)
    [] site = "mixer"         -> Truncated(name, 12, 10)
    [] site = "mixer3"        -> Truncated(name, 10, 8)
    [] site = "mixer3Match"   -> Truncated(name, 18, 16)
    [] site = "swatch"        -> Truncated(name, 10, 8)
    [] site = "accessibility" -> Truncated(name, 10, 8)
    [] site = "comparison"    -> Truncated(name, 14, 12)

(***************************************************************************)
(* Label specification: the initial state holds a layout and a dye name,   *)
(* the step computes the label.                                            *)
(***************************************************************************)
MaxName == 21

LongestName ==
  <<"M", "e", "t", "a", "l", "l", "i", "c", " ", "C", "o", "b", "a", "l", "t", " ",
    "G", "r", "e", "e", "n", " ", "D", "y", "e">>

DyeNames == {SubSeq(LongestName, 1, n) : n \in 0..Min(MaxName, Len(LongestName))}

LabelCalls == {[op |-> "label", site |-> s, name |-> n] : s \in LabelSites, n \in DyeNames}

InitLabel ==
  /\ palette = DefaultPalette
  /\ call \in LabelCalls
  /\ ret = NoRet
  /\ pc = "call"
  /\ served = <<>>
  /\ RendererUnused

CallNameLabel ==
  /\ pc = "call"
  /\ call.op = "label"
  /\ ret' = [threw |-> FALSE, label |-> NameLabel(call.site, call.name)]
  /\ pc' = "done"
  /\ UNCHANGED <<palette, call, served, rendererVars>>

NextLabel == CallNameLabel

SpecLabel == InitLabel /\ [][NextLabel]_vars

(***************************************************************************)
(* URLs.  A string is a sequence of tokens; a token is one character or a  *)
(* word that holds none of the characters the code looks for ('/', ',',    *)
(* '?', '#', a digit, a sign, the text '.png').                            *)
(***************************************************************************)
DecDigits == <<"0", "1", "2", "3", "4", "5", "6", "7", "8", "9">>

RECURSIVE NatToString(_)
NatToString(n) ==
  IF n < 10 THEN <<DecDigits[n + 1]>>
  ELSE NatToString(n \div 10) \o <<DecDigits[(n % 10) + 1]>>

\* `${x}` of an integer or NaN.
NumberToString(x) ==
  IF x.nan THEN <<"NaN">>
  ELSE IF x.twice < 0 THEN <<"-">> \o NatToString((-x.twice) \div 2)
  ELSE NatToString(x.twice \div 2)

RECURSIVE DecPrefixLen(_)
DecPrefixLen(s) ==
  IF Len(s) = 0 \/ s[1] \notin Range(DecDigits) THEN 0
  ELSE 1 + DecPrefixLen(Tail(s))

RECURSIVE DecValue(_, _)
DecValue(s, acc) ==
  IF Len(s) = 0 THEN acc
  ELSE DecValue(Tail(s), 10 * acc + DigitVal(s[1]))

\* parseInt(s, 10): optional sign, then the longest prefix of decimal
\* digits; NaN when that prefix is empty.
ParseInt10(s) ==
  LET Signed(neg, digits) ==
        LET Valued(n) ==
              IF n = 0 THEN JsNaN
              ELSE JsInt(IF neg THEN -DecValue(SubSeq(digits, 1, n), 0)
                         ELSE DecValue(SubSeq(digits, 1, n), 0))
        IN  Valued(DecPrefixLen(digits))
  IN  IF Len(s) >= 1 /\ s[1] \in {"-", "+"} THEN Signed(s[1] = "-", Tail(s))
      ELSE Signed(FALSE, s)

\* The position of the first token of s that is in toks, 0 when none is.
FirstIndex(s, toks) ==
  IF \E i \in 1..Len(s) : s[i] \in toks
  THEN CHOOSE i \in 1..Len(s) : s[i] \in toks /\ \A j \in 1..(i - 1) : s[j] \notin toks
  ELSE 0

\* String.prototype.replace('.png', ''): removes the first '.png'.
ReplacePng(s) ==
  LET Cut(i) == IF i = 0 THEN s ELSE SubSeq(s, 1, i - 1) \o SubSeq(s, i + 1, Len(s))
  IN  Cut(FirstIndex(s, {".png"}))

\* String.prototype.split(sep): one piece more than there are separators.
RECURSIVE Split(_, _)
Split(s, sep) ==
  LET Cut(i) == IF i = 0 THEN <<s>>
                ELSE <<SubSeq(s, 1, i - 1)>> \o Split(SubSeq(s, i + 1, Len(s)), sep)
  IN  Cut(FirstIndex(s, {sep}))

\* Array.prototype.join(sep) of strings.
RECURSIVE Join(_, _)
Join(parts, sep) ==
  IF Len(parts) = 0 THEN <<>>
  ELSE IF Len(parts) = 1 THEN parts[1]
  ELSE parts[1] \o <<sep>> \o Join(Tail(parts), sep)

\* String.prototype.toLowerCase on the words of the model.
LowerWord(w) ==
  IF w = "Triadic" THEN "triadic" ELSE IF w = "Tritanopia" THEN "tritanopia" ELSE w

\* The string as a type name: its word, or a name no table holds.
WordOf(s) == IF Len(s) = 1 THEN s[1] ELSE "unknown"

\* NaN equals no itemID: it stands as an id that no dye carries.
NotAnItemId == -1

ItemIdOf(x) == IF x.nan THEN NotAnItemId ELSE x.twice \div 2

\* new URL(url).pathname: the URL up to its query or fragment.  The origin
\* is left out: a URL starts at its path.
PathOf(url) ==
  LET Cut(i) == IF i = 0 THEN url ELSE SubSeq(url, 1, i - 1)
  IN  Cut(FirstIndex(url, {"?", "#"}))

PathSegments(path) == Tail(Split(path, "/"))

(***************************************************************************)
(* The OG metadata generators (og-data-generator.ts).  A result keeps what *)
(* the page states about its image: whether it is the fallback metadata,   *)
(* the theme colour, the number of dyes the description names and the      *)
(* image URL.                                                              *)
(***************************************************************************)
\* env.OG_IMAGE_BASE_URL: the /og prefix of this worker.
OG_IMAGE_BASE_URL == <<"/", "og">>

NoThemeColor == <<>>

OGData(isFallback, themeColor, dyeCount, imageUrl) ==
  [threw |-> FALSE, fallback |-> isFallback, themeColor |-> themeColor,
   dyeCount |-> dyeCount, imageUrl |-> imageUrl]

OGDataThrew ==
  [threw |-> TRUE, fallback |-> FALSE, themeColor |-> NoThemeColor, dyeCount |-> 0,
   imageUrl |-> <<>>]

getDyeInfo(allDyes, itemID) == getDyeByItemId(allDyes, ItemIdOf(itemID))

\* HARMONY_NAMES[params.harmony] || params.harmony is not a string when the
\* key is inherited, and harmonyName.toLowerCase() then throws.
generateHarmonyOGData(allDyes, params) ==
  LET dyeInfo == getDyeInfo(allDyes, params.dye)
  IN  IF params.harmony \in InheritedKeys THEN OGDataThrew
      ELSE IF dyeInfo = NoDye
      THEN OGData(TRUE, NoThemeColor, 0,
                  OG_IMAGE_BASE_URL \o <<"/", "harmony", "/", "default", ".png">>)
      ELSE OGData(FALSE, dyeInfo.hex, 1,
                  OG_IMAGE_BASE_URL \o <<"/", "harmony", "/">> \o NumberToString(params.dye)
                  \o <<"/", params.harmony, ".png">>)

generateGradientOGData(allDyes, params) ==
  LET startDye == getDyeInfo(allDyes, params.start)
      endDye   == getDyeInfo(allDyes, params.end)
  IN  IF startDye = NoDye \/ endDye = NoDye
      THEN OGData(TRUE, NoThemeColor, 0,
                  OG_IMAGE_BASE_URL \o <<"/", "gradient", "/", "default", ".png">>)
      ELSE OGData(FALSE, startDye.hex, 2,
                  OG_IMAGE_BASE_URL \o <<"/", "gradient", "/">>
                  \o NumberToString(params.start) \o <<"/">>
                  \o NumberToString(params.end) \o <<"/">>
                  \o NumberToString(params.steps) \o <<".png">>)

\* params.dyeC is undefined (here NaN) when the page has no dyeC parameter;
\* 0 and NaN are falsy.
generateMixerOGData(allDyes, params) ==
  LET dyeA == getDyeInfo(allDyes, params.dyeA)
      dyeB == getDyeInfo(allDyes, params.dyeB)
      dyeC == IF ~params.dyeC.nan /\ params.dyeC.twice # 0
              THEN getDyeInfo(allDyes, params.dyeC) ELSE NoDye
  IN  IF dyeA = NoDye \/ dyeB = NoDye
      THEN OGData(TRUE, NoThemeColor, 0,
                  OG_IMAGE_BASE_URL \o <<"/", "mixer", "/", "default", ".png">>)
      ELSE IF dyeC # NoDye
      THEN OGData(FALSE, dyeA.hex, 3,
                  OG_IMAGE_BASE_URL \o <<"/", "mixer", "/">>
                  \o NumberToString(params.dyeA) \o <<"/">>
                  \o NumberToString(params.dyeB) \o <<"/">>
                  \o NumberToString(params.dyeC) \o <<"/">>
                  \o NumberToString(params.ratio) \o <<".png">>)
      ELSE OGData(FALSE, dyeA.hex, 2,
                  OG_IMAGE_BASE_URL \o <<"/", "mixer", "/">>
                  \o NumberToString(params.dyeA) \o <<"/">>
                  \o NumberToString(params.dyeB) \o <<"/">>
                  \o NumberToString(params.ratio) \o <<".png">>)

\* params.limit || 5: 0 and NaN give 5.  The query string of the image URL
\* holds one word per parameter that is set.
generateSwatchOGData(allDyes, params) ==
  LET limit == IF params.limit.nan \/ params.limit.twice = 0 THEN JsInt(5) ELSE params.limit
  IN  OGData(FALSE,
             IF StartsWithHash(params.color) THEN params.color ELSE <<"#">> \o params.color,
             0,
             OG_IMAGE_BASE_URL \o <<"/", "swatch", "/">> \o params.color \o <<"/">>
             \o NumberToString(limit) \o <<".png">>
             \o (IF params.algo = "" THEN <<>> ELSE <<"?", "algo", "=", params.algo>>))

JoinIds(dyes) == Join([i \in 1..Len(dyes) |-> NumberToString(JsInt(dyes[i]))], ",")

\* params.dyes.slice(0, 4).map(getDyeInfo).filter(Boolean)
generateComparisonOGData(allDyes, params) ==
  LET dyes == ResolveDyesCapFirst(allDyes, params.dyes)
  IN  IF Len(dyes) = 0
      THEN OGData(TRUE, NoThemeColor, 0,
                  OG_IMAGE_BASE_URL \o <<"/", "comparison", "/", "default", ".png">>)
      ELSE OGData(FALSE, dyes[1].hex, Len(dyes),
                  OG_IMAGE_BASE_URL \o <<"/", "comparison", "/">> \o JoinIds(params.dyes)
                  \o <<".png">>)

\* params.vision is "" when the page has no vision parameter.  VISION_NAMES
\* has no entry for any other name, and visionName.toLowerCase() then throws.
generateAccessibilityOGData(allDyes, params) ==
  LET dyes == ResolveDyesCapFirst(allDyes, params.dyes)
  IN  IF Len(dyes) = 0
      THEN OGData(TRUE, NoThemeColor, 0,
                  OG_IMAGE_BASE_URL \o <<"/", "accessibility", "/", "default", ".png">>)
      ELSE IF params.vision # "" /\ params.vision \notin VisionTypes THEN OGDataThrew
      ELSE OGData(FALSE, dyes[1].hex, Len(dyes),
                  OG_IMAGE_BASE_URL \o <<"/", "accessibility", "/">> \o JoinIds(params.dyes)
                  \o <<"/", IF params.vision = "" THEN "normal" ELSE params.vision, ".png">>)

\* The metadata of the home page and of the catch-all route.
DefaultOGData == OGData(TRUE, NoThemeColor, 0, OG_IMAGE_BASE_URL \o <<"/", "default", ".png">>)

\* value || fallback on strings: the empty string and null are falsy.
OrElse(s, fallback) == IF Len(s) = 0 THEN fallback ELSE s

ParseIntEach(parts) == [i \in 1..Len(parts) |-> ParseInt10(parts[i])]

RECURSIVE KeepNumbers(_)
KeepNumbers(xs) ==
  IF Len(xs) = 0 THEN <<>>
  ELSE (IF xs[1].nan THEN <<>> ELSE <<ItemIdOf(xs[1])>>) \o KeepNumbers(Tail(xs))

\* dyesParam.split(',').map((id) => parseInt(id, 10)).filter((id) => !isNaN(id))
ParseIds(dyesParam) == KeepNumbers(ParseIntEach(Split(dyesParam, ",")))

\* searchParams holds the value of every parameter as a string, empty when
\* the parameter is absent; harmony, vision and algo are words.
generateOGDataForTool(allDyes, tool, searchParams) ==
  CASE tool = "harmony" ->
         generateHarmonyOGData(allDyes,
           [dye     |-> ParseInt10(OrElse(searchParams.dye, <<"0">>)),
            harmony |-> LowerWord(IF searchParams.harmony = "" THEN "complementary"
                                  ELSE searchParams.harmony)])
    [] tool = "gradient" ->
         generateGradientOGData(allDyes,
           [start |-> ParseInt10(OrElse(searchParams.start, <<"0">>)),
            end   |-> ParseInt10(OrElse(searchParams.end, <<"0">>)),
            steps |-> ParseInt10(OrElse(searchParams.steps, <<"5">>))])
    [] tool = "mixer" ->
         generateMixerOGData(allDyes,
           [dyeA  |-> ParseInt10(OrElse(searchParams.dyeA, <<"0">>)),
            dyeB  |-> ParseInt10(OrElse(searchParams.dyeB, <<"0">>)),
            dyeC  |-> IF Len(searchParams.dyeC) = 0 THEN JsNaN
                      ELSE ParseInt10(searchParams.dyeC),
            ratio |-> ParseInt10(OrElse(searchParams.ratio, <<"5", "0">>))])
    [] tool = "swatch" ->
         generateSwatchOGData(allDyes,
           [color |-> OrElse(searchParams.color, <<"F", "F", "F", "F", "F", "F">>),
            algo  |-> searchParams.algo,
            limit |-> ParseInt10(OrElse(searchParams.limit, <<"5">>))])
    [] tool = "comparison" ->
         generateComparisonOGData(allDyes, [dyes |-> ParseIds(searchParams.dyes)])
    [] tool = "accessibility" ->
         generateAccessibilityOGData(allDyes,
           [dyes |-> ParseIds(searchParams.dyes), vision |-> searchParams.vision])
    [] OTHER -> DefaultOGData

(***************************************************************************)
(* The routes of the worker (index.ts), in registration order.  A pattern  *)
(* matches a path of as many segments whose literal segments are equal and *)
(* whose parameter segments are not empty; a request goes to the first     *)
(* route that matches it, and to the catch-all route when none does.       *)
(***************************************************************************)
SUPPORTED_TOOLS == <<"harmony", "gradient", "mixer", "swatch", "comparison", "accessibility">>

Lit(s) == [param |-> FALSE, lit |-> s]

Param == [param |-> TRUE, lit |-> <<>>]

Route(name, tool, pattern) == [name |-> name, tool |-> tool, pattern |-> pattern]

OgRoute(name, pattern) == Route(name, "", <<Lit(<<"og">>)>> \o pattern)

Routes ==
  <<Route("health", "", <<Lit(<<"health">>)>>)>>
  \o [i \in 1..(2 * Len(SUPPORTED_TOOLS)) |->
        IF i % 2 = 1
        THEN Route("tool", SUPPORTED_TOOLS[(i + 1) \div 2],
                   <<Lit(<<SUPPORTED_TOOLS[(i + 1) \div 2]>>)>>)
        ELSE Route("tool", SUPPORTED_TOOLS[i \div 2],
                   <<Lit(<<SUPPORTED_TOOLS[i \div 2]>>), Lit(<<>>)>>)]
  \o <<OgRoute("ogHarmony", <<Lit(<<"harmony">>), Param, Param>>),
        OgRoute("ogGradient", <<Lit(<<"gradient">>), Param, Param, Param>>),
        OgRoute("ogMixer", <<Lit(<<"mixer">>), Param, Param, Param>>),
        OgRoute("ogMixer3", <<Lit(<<"mixer">>), Param, Param, Param, Param>>),
        OgRoute("ogSwatch", <<Lit(<<"swatch">>), Param, Param>>),
        OgRoute("ogComparison", <<Lit(<<"comparison">>), Param>>),
        OgRoute("ogAccessibility", <<Lit(<<"accessibility">>), Param, Param>>),
        OgRoute("ogDefault", <<Lit(<<"default", ".png">>)>>),
        Route("home", "", <<Lit(<<>>)>>)>>

CatchAll == Route("catchAll", "", <<>>)

Matches(pattern, segments) ==
  /\ Len(pattern) = Len(segments)
  /\ \A i \in 1..Len(pattern) :
       IF pattern[i].param THEN Len(segments[i]) > 0 ELSE segments[i] = pattern[i].lit

MatchRoute(segments) ==
  IF \E i \in 1..Len(Routes) : Matches(Routes[i].pattern, segments)
  THEN Routes[CHOOSE i \in 1..Len(Routes) :
                /\ Matches(Routes[i].pattern, segments)
                /\ \A j \in 1..(i - 1) : ~Matches(Routes[j].pattern, segments)]
  ELSE CatchAll

\* The colours of the circles of the default image.
DefaultImageColors ==
  <<<<"#", "e", "f", "4", "4", "4", "4">>, <<"#", "f", "9", "7", "3", "1", "6">>,
    <<"#", "e", "a", "b", "3", "0", "8">>, <<"#", "2", "2", "c", "5", "5", "e">>,
    <<"#", "3", "b", "8", "2", "f", "6">>, <<"#", "a", "8", "5", "5", "f", "7">>,
    <<"#", "e", "c", "4", "8", "9", "9">>>>

\* The answer of a route that renders no image: an HTML page.
NotAnImage == [threw |-> FALSE, layout |-> "html", colors |-> <<>>]

\* isNaN(n) ? fallback : n
NumberOr(x, fallback) == IF x.nan THEN fallback ELSE x.twice \div 2

(***************************************************************************)
(* Page specification: a crawler requests a page of the site and then the  *)
(* image that the metadata of that page names.  The matching library       *)
(* returns NaN for a malformed colour.                                     *)
(***************************************************************************)
IdStrings ==
  {<<>>, <<"1", "1">>, <<"1", "4">>, <<"9", "9">>, <<"abc">>}

IdListStrings ==
  {<<>>,
   <<"1", "1">>,
   <<"1", "1", ",", "1", "4">>,
   <<"9", "9">>,
   <<"1", "1", ",", "abc", ",", "1", "2">>,
   <<"9", "9", ",", "9", "9", ",", "9", "9", ",", "9", "9", ",", "1", "1">>,
   <<"1", "1", ",", "9", "9", ",", "1", "2", ",", "1", "3", ",", "1", "4", ",", "1", "5">>}

PageCalls ==
  {[url |-> <<"/", "harmony">>, searchParams |-> [dye |-> d, harmony |-> h]] :
     d \in IdStrings, h \in {"", "triadic", "Triadic", "constructor"}}
  \cup {[url |-> <<"/", "gradient">>, searchParams |-> [start |-> a, end |-> b, steps |-> n]] :
          a \in {<<"1", "1">>, <<"9", "9">>}, b \in {<<>>, <<"1", "4">>, <<"9", "9">>},
          n \in {<<>>, <<"3">>, <<"9">>, <<"abc">>}}
  \cup {[url |-> <<"/", "mixer", "/">>,
         searchParams |-> [dyeA |-> a, dyeB |-> <<"1", "2">>, dyeC |-> c, ratio |-> r]] :
          a \in {<<"1", "1">>, <<"9", "9">>},
          c \in {<<>>, <<"0">>, <<"1", "3">>, <<"9", "9">>},
          r \in {<<>>, <<"3", "0">>, <<"abc">>}}
  \cup {[url |-> <<"/", "swatch">>, searchParams |-> [color |-> h, limit |-> l, algo |-> a]] :
          h \in {<<>>, <<"F", "F", "0", "0", "0", "0">>, <<"#", "F", "F", "0", "0", "0", "0">>},
          l \in {<<>>, <<"0">>, <<"3">>}, a \in {"", "rgb"}}
  \cup {[url |-> <<"/", "comparison">>, searchParams |-> [dyes |-> ids]] :
          ids \in IdListStrings}
  \cup {[url |-> <<"/", "accessibility">>, searchParams |-> [dyes |-> ids, vision |-> v]] :
          ids \in IdListStrings, v \in {"", "protanopia", "Tritanopia", "foo"}}
  \cup {[url |-> <<"/">>, searchParams |-> [dye |-> <<>>]],
        [url |-> <<"/", "gallery">>, searchParams |-> [dye |-> <<>>]]}

InitPage ==
  /\ palette \in OGPalettes
  /\ call \in PageCalls
  /\ ret = NoRet
  /\ pc = "request"
  /\ served = <<>>
  /\ RendererUnused

\* The URL of the request in flight: the page, then its image.
RequestUrl == IF pc = "request" THEN call.url ELSE ret.imageUrl

RequestSegments == PathSegments(PathOf(RequestUrl))

Routed(name) ==
  /\ pc \in {"request", "page"}
  /\ MatchRoute(RequestSegments).name = name

\* The route answers a crawler with the HTML page that carries og.
AnswerPage(og) ==
  /\ ret' = IF pc = "request" THEN og
            ELSE [threw |-> FALSE, og |-> ret, route |-> MatchRoute(RequestSegments).name,
                  image |-> NotAnImage]
  /\ pc' = IF pc = "request" /\ ~og.threw THEN "page" ELSE "done"
  /\ UNCHANGED <<palette, call, served, rendererVars>>

\* The route answers with the rendering of the layout, or fails.
AnswerImage(image) ==
  /\ ret' = [threw |-> FALSE, og |-> ret, route |-> MatchRoute(RequestSegments).name,
             image |-> image]
  /\ pc' = "done"
  /\ UNCHANGED <<palette, call, served, rendererVars>>

ServeToolPage ==
  /\ Routed("tool")
  /\ AnswerPage(generateOGDataForTool(palette, MatchRoute(RequestSegments).tool,
                                      call.searchParams))

ServeHomePage ==
  /\ Routed("home")
  /\ AnswerPage(DefaultOGData)

ServeCatchAll ==
  /\ Routed("catchAll")
  /\ AnswerPage(DefaultOGData)

ServeHarmonyImage ==
  /\ Routed("ogHarmony")
  /\ AnswerImage(generateHarmonyOG(palette, ItemIdOf(ParseInt10(RequestSegments[3])),
                                   LowerWord(WordOf(ReplacePng(RequestSegments[4])))))

ServeGradientImage ==
  /\ Routed("ogGradient")
  /\ AnswerImage(generateGradientOG(palette, ItemIdOf(ParseInt10(RequestSegments[3])),
                                    ItemIdOf(ParseInt10(RequestSegments[4])),
                                    NumberOr(ParseInt10(ReplacePng(RequestSegments[5])), 5),
                                    FALSE))

ServeMixerImage ==
  /\ Routed("ogMixer")
  /\ AnswerImage(generateMixerOG(palette, ItemIdOf(ParseInt10(RequestSegments[3])),
                                 ItemIdOf(ParseInt10(RequestSegments[4])), 0,
                                 NumberOr(ParseInt10(ReplacePng(RequestSegments[5])), 50),
                                 FALSE))

ServeMixer3Image ==
  /\ Routed("ogMixer3")
  /\ AnswerImage(generateMixerOG(palette, ItemIdOf(ParseInt10(RequestSegments[3])),
                                 ItemIdOf(ParseInt10(RequestSegments[4])),
                                 ItemIdOf(ParseInt10(RequestSegments[5])),
                                 NumberOr(ParseInt10(ReplacePng(RequestSegments[6])), 50),
                                 FALSE))

ServeSwatchImage ==
  /\ Routed("ogSwatch")
  /\ AnswerImage(generateSwatchOG(palette, RequestSegments[3],
                                  NumberOr(ParseInt10(ReplacePng(RequestSegments[4])), 5)))

ServeComparisonImage ==
  /\ Routed("ogComparison")
  /\ AnswerImage(generateComparisonOG(palette, ParseIds(ReplacePng(RequestSegments[3]))))

ServeAccessibilityImage ==
  /\ Routed("ogAccessibility")
  /\ AnswerImage(generateAccessibilityOG(palette, ParseIds(RequestSegments[3]),
                                         LowerWord(WordOf(ReplacePng(RequestSegments[4])))))

ServeDefaultImage ==
  /\ Routed("ogDefault")
  /\ AnswerImage(Layout("default", DefaultImageColors))

NextPage ==
  \/ ServeToolPage
  \/ ServeHomePage
  \/ ServeCatchAll
  \/ ServeHarmonyImage
  \/ ServeGradientImage
  \/ ServeMixerImage
  \/ ServeMixer3Image
  \/ ServeSwatchImage
  \/ ServeComparisonImage
  \/ ServeAccessibilityImage
  \/ ServeDefaultImage

SpecPage == InitPage /\ [][NextPage]_vars

(***************************************************************************)
(* Well-formedness of colour strings, as the specification words it.       *)
(***************************************************************************)
StripHash(s) == IF StartsWithHash(s) THEN Tail(s) ELSE s

IsValidHex(s) ==
  /\ Len(StripHash(s)) = 6
  /\ \A i \in 1..6 : IsHexDigit(StripHash(s)[i])

IsLowerHexColor(s) ==
  /\ Len(s) = 7
  /\ s[1] = "#"
  /\ \A i \in 2..7 : s[i] \in Range(LowerDigits)

NormalizeHex(s) == <<"#">> \o ToLowerCase(StripHash(s))

IsChannel(x) == IsInteger(x) /\ IntOf(x) \in 0..255

\* Clamp to [0,255] and round to the nearest integer, as two lowercase digits.
ClampRoundDigits(x) ==
  LET n == Min(255, Max(0, MathRound(x.twice, 2)))
  IN  <<LowerDigits[(n \div 16) + 1], LowerDigits[(n % 16) + 1]>>

(***************************************************************************)
(* C4: hexToRgb fails with InvalidFormat on every string that, after       *)
(* stripping one optional leading '#', is not exactly 6 hexadecimal        *)
(* digits, and every triplet it does return has three integer channels in  *)
(* 0..255.                                                                 *)
(***************************************************************************)
C4_HexToRgbRejectsMalformed ==
  (pc = "done" /\ call.op = "hexToRgb") =>
     /\ (~IsValidHex(call.hex) => ret.threw)
     /\ (~ret.threw =>
           IsChannel(ret.rgb.r) /\ IsChannel(ret.rgb.g) /\ IsChannel(ret.rgb.b))

(***************************************************************************)
(* C7: for every valid 6-digit hex string h, in any letter case and with   *)
(* or without the leading '#', rgbToHex of the channels of hexToRgb(h) is  *)
(* h normalised to '#' followed by the lowercase digits.                   *)
(***************************************************************************)
C7_RoundTrip ==
  (pc = "done" /\ call.op = "hexToRgb" /\ IsValidHex(call.hex)) =>
     rgbToHex(ret.rgb.r, ret.rgb.g, ret.rgb.b) = NormalizeHex(call.hex)

C7_Witness ==
  /\ pc = "done"
  /\ call.op = "hexToRgb"
  /\ call.hex = <<"0", "a", "7", "F", "F", "f">>
  /\ ret.rgb = [r |-> JsInt(10), g |-> JsInt(127), b |-> JsInt(255)]

(***************************************************************************)
(* C8: rgbToHex clamps each channel to [0,255] and rounds it to the        *)
(* nearest integer before encoding, so for every numeric (r,g,b) the       *)
(* result is '#' followed by 6 lowercase hex digits, 2 per channel.        *)
(***************************************************************************)
C8_RgbToHexClamps ==
  (pc = "done" /\ call.op = "rgbToHex") =>
     /\ IsLowerHexColor(ret.hex)
     /\ ret.hex = <<"#">> \o ClampRoundDigits(call.r) \o ClampRoundDigits(call.g)
                          \o ClampRoundDigits(call.b)

(***************************************************************************)
(* C1: for limit >= 1, findClosestDyesWithDistance returns a list that is  *)
(* non-decreasing in distance, has exactly min(limit, number of            *)
(* non-excluded palette entries) entries and none whose id is excluded;    *)
(* when every entry is excluded the result is the empty list.              *)
(***************************************************************************)
NonExcluded == {i \in 1..Len(palette) : palette[i].id \notin call.excludeIds}

C1_FindClosestOrdered ==
  (pc = "done" /\ call.op = "findClosest" /\ call.limit >= 1) =>
     /\ ~ret.threw
     /\ \A i \in 1..(Len(ret.matches) - 1) :
           ret.matches[i].distance.twice <= ret.matches[i + 1].distance.twice
     /\ Len(ret.matches) = Min(call.limit, Cardinality(NonExcluded))
     /\ \A i \in 1..Len(ret.matches) : ret.matches[i].dye.id \notin call.excludeIds
     /\ (NonExcluded = {} => ret.matches = <<>>)

C1_Witness ==
  /\ pc = "done"
  /\ call.op = "findClosest"
  /\ call.limit = 2
  /\ call.excludeIds = {2}
  /\ Cardinality(NonExcluded) >= 3
  /\ Len(palette) > Cardinality(NonExcluded)
  /\ Len(ret.matches) = 2
  /\ ret.matches[1].distance.twice < ret.matches[2].distance.twice

(***************************************************************************)
(* C9: for a hue-based scheme getHarmonyMatches produces one target hue    *)
(* per offset of the scheme (complementary 1, analogous 2, triadic 2,      *)
(* split-complementary 2, tetradic 3, square 3, compound 4, an unknown     *)
(* scheme complementary's single +180), so the result has                  *)
(* min(number of offsets, palette size - 1) entries, never more than 4,    *)
(* and complementary on a palette of at least 2 entries returns exactly 1. *)
(***************************************************************************)
SchemeOffsets(scheme) ==
  CASE scheme = "complementary"       -> <<180>>
    [] scheme = "analogous"           -> <<-30, 30>>
    [] scheme = "triadic"             -> <<120, -120>>
    [] scheme = "split-complementary" -> <<150, -150>>
    [] scheme = "tetradic"            -> <<60, 180, 240>>
    [] scheme = "square"              -> <<90, 180, 270>>
    [] scheme = "compound"            -> <<30, 150, -150, -30>>
    [] OTHER                          -> <<180>>

C9_HarmonyMatchCount ==
  (pc = "done" /\ call.op = "harmonyMatches" /\ call.harmonyType \notin ClosestSchemes) =>
     /\ Len(ret.matches) = Min(Len(SchemeOffsets(call.harmonyType)), Len(palette) - 1)
     /\ Len(ret.matches) <= 4
     /\ (call.harmonyType = "complementary" /\ Len(palette) >= 2 => Len(ret.matches) = 1)
     /\ (call.harmonyType \notin HueSchemes =>
           ret.matches = getHarmonyMatches(palette, palette[call.base], "complementary"))

C9_Witness ==
  /\ pc = "done"
  /\ call.op = "harmonyMatches"
  /\ call.harmonyType = "compound"
  /\ Len(palette) = 5
  /\ Len(ret.matches) = 4

C9_WitnessUnknown ==
  /\ pc = "done"
  /\ call.op = "harmonyMatches"
  /\ call.harmonyType = "rainbow"
  /\ Len(palette) >= 3
  /\ Len(ret.matches) = 1

(***************************************************************************)
(* C10: for each target hue, in offset order, getHarmonyMatches selects    *)
(* the first entry in palette order that attains the minimal circular hue  *)
(* difference min(|d|, 360 - |d|) among the entries that are neither the   *)
(* base nor selected for an earlier offset; the returned entries are       *)
(* pairwise distinct, never the base, and each recorded delta is the       *)
(* perceptual distance base-to-candidate.                                  *)
(***************************************************************************)
CircularDiff(h1, h2) ==
  LET d == Abs((h1 % 360) - (h2 % 360))
  IN  Min(d, 360 - d)

\* Palette indices still selectable for the k-th target.
Selectable(k) ==
  {i \in 1..Len(palette) :
     /\ palette[i].id # palette[call.base].id
     /\ \A m \in 1..(k - 1) : ret.matches[m].dye.id # palette[i].id}

TargetHue(k) == palette[call.base].hue + SchemeOffsets(call.harmonyType)[k]

C10_HarmonySelection ==
  (pc = "done" /\ call.op = "harmonyMatches" /\ call.harmonyType \notin ClosestSchemes) =>
     /\ \A k \in 1..Len(ret.matches) :
           \E i \in Selectable(k) :
             /\ ret.matches[k].dye = palette[i]
             /\ \A j \in Selectable(k) :
                   /\ CircularDiff(TargetHue(k), palette[i].hue)
                        <= CircularDiff(TargetHue(k), palette[j].hue)
                   /\ (CircularDiff(TargetHue(k), palette[i].hue)
                        = CircularDiff(TargetHue(k), palette[j].hue) => i <= j)
             /\ ret.matches[k].delta = getDeltaE_Oklab(palette[call.base].hex, palette[i].hex)
     /\ \A k \in 1..Len(ret.matches) :
           /\ ret.matches[k].dye.id # palette[call.base].id
           /\ \A m \in 1..Len(ret.matches) :
                 m # k => ret.matches[m].dye.id # ret.matches[k].dye.id

\* A tie between two selectable entries, won by the one enumerated first,
\* and a delta that differs from the hue difference.
C10_Witness ==
  /\ pc = "done"
  /\ call.op = "harmonyMatches"
  /\ call.harmonyType = "analogous"
  /\ Len(ret.matches) = 2
  /\ \E i, j \in Selectable(1) :
        /\ i < j
        /\ ret.matches[1].dye = palette[i]
        /\ CircularDiff(TargetHue(1), palette[i].hue) = CircularDiff(TargetHue(1), palette[j].hue)
  /\ ret.matches[1].delta.twice # 2 * CircularDiff(TargetHue(1), ret.matches[1].dye.hue)

(***************************************************************************)
(* Gradient steps, fallback layouts and degenerate options.                *)
(***************************************************************************)
IsWellFormedColor(s) ==
  /\ Len(s) = 7
  /\ s[1] = "#"
  /\ \A i \in 2..7 : IsHexDigit(s[i])

SameChannels(hexA, hexB) ==
  LET a == hexToRgb(hexA)
      b == hexToRgb(hexB)
  IN  /\ IsChannel(a.r) /\ IsChannel(a.g) /\ IsChannel(a.b)
      /\ a = b

\* C2: for valid start and end colours and every stepCount n >= 2,
\* generateGradientSteps returns n steps; the first step's hex is the start
\* colour and the last step's hex is the end colour, channel for channel with
\* no rounding drift (the hex is the colour's spelling with '#' and lowercase
\* digits, the form interpolateColor writes).
C2_GradientEndpoints ==
  (pc = "done" /\ call.op = "gradientSteps" /\ call.stepCount >= 2)
    => /\ ~ret.threw
       /\ Len(ret.steps) = call.stepCount
       /\ ret.steps[1].hex = NormalizeHex(call.startHex)
       /\ SameChannels(ret.steps[1].hex, call.startHex)
       /\ ret.steps[call.stepCount].hex = NormalizeHex(call.endHex)
       /\ SameChannels(ret.steps[call.stepCount].hex, call.endHex)

C2_Witness ==
  /\ pc = "done"
  /\ call.op = "gradientSteps"
  /\ call.stepCount = 4
  /\ call.startHex = <<"#", "F", "F", "F", "F", "F", "F">>
  /\ call.endHex = <<"#", "0", "a", "7", "F", "F", "f">>
  /\ Len(ret.steps) = 4
  /\ ret.steps[1].hex = <<"#", "f", "f", "f", "f", "f", "f">>
  /\ ret.steps[2].hex = <<"#", "a", "d", "d", "4", "f", "f">>
  /\ ret.steps[4].hex = <<"#", "0", "a", "7", "f", "f", "f">>

Resolves(id) == \E i \in 1..Len(palette) : palette[i].itemID = id

\* The ids of the call name no palette entry the tool can draw: the single
\* id or one of the two required ids is unknown, or the id list is empty or
\* holds unknown ids only.
IdsUnresolved ==
  CASE call.op = "harmony"       -> ~Resolves(call.dyeId)
    [] call.op = "gradient"      -> ~Resolves(call.startDyeId) \/ ~Resolves(call.endDyeId)
    [] call.op = "mixer"         -> ~Resolves(call.dyeAId) \/ ~Resolves(call.dyeBId)
    [] call.op = "comparison"    -> \A i \in 1..Len(call.dyeIds) : ~Resolves(call.dyeIds[i])
    [] call.op = "accessibility" -> \A i \in 1..Len(call.dyeIds) : ~Resolves(call.dyeIds[i])
    [] OTHER                     -> FALSE

\* C3: whenever the palette ids of a generator call do not resolve, the
\* generator returns its designed fallback layout: it does not throw, the
\* layout is the fallback one and draws at least one colour, and the
\* comparison fallback draws exactly its 4 example swatches.
C3_FallbackOnUnresolved ==
  (pc = "done" /\ IdsUnresolved)
    => /\ ~ret.threw
       /\ ret.layout = "fallback"
       /\ Len(ret.colors) > 0
       /\ call.op = "comparison"
            => ret.colors = <<<<"#", "F", "2", "F", "2", "F", "2">>, <<"#", "8", "A", "2", "A", "3", "7">>,
                              <<"#", "2", "5", "2", "A", "4", "2">>, <<"#", "C", "8", "B", "3", "7", "4">>>>

Clamp(x, lo, hi) == Min(Max(x, lo), hi)

\* C5: a gradient stepCount below 2 is treated as 2 and a mixer ratio
\* outside 0..100 as the nearest bound: the generator does not throw, builds
\* the layout of the clamped option, and every colour it draws is '#'
\* followed by 6 hex digits.
C5_DegenerateInputsClamped ==
  /\ (pc = "done" /\ call.op = "gradient")
       => /\ ~ret.threw
          /\ ret = generateGradientOG(palette, call.startDyeId, call.endDyeId,
                                      Max(call.stepCount, 2), call.strict)
          /\ \A i \in 1..Len(ret.colors) : IsWellFormedColor(ret.colors[i])
  /\ (pc = "done" /\ call.op = "mixer")
       => /\ ~ret.threw
          /\ ret = generateMixerOG(palette, call.dyeAId, call.dyeBId, call.dyeCId,
                                   Clamp(call.ratio, 0, 100), call.strict)
          /\ \A i \in 1..Len(ret.colors) : IsWellFormedColor(ret.colors[i])

\* C6: generateAccessibilityOG and generateHarmonyOG return a complete layout
\* without throwing for every vision-type / harmony-type string a route can
\* pass, whether or not the ids resolve.
C6_TagFaultsAbsorbed ==
  (pc = "done" /\ call.op \in {"harmony", "accessibility"})
    => /\ ~ret.threw
       /\ ret.layout \in {"populated", "fallback"}
       /\ Len(ret.colors) > 0

(***************************************************************************)
(* Monochromatic and shades.                                               *)
(***************************************************************************)
\* C11: for 'monochromatic' and 'shades' getHarmonyMatches returns the result
\* of findClosestDyesWithDistance(base hex, limit 4, excludeIds {base.id}),
\* entry for entry in the same order with delta = distance; no hue enters the
\* selection (the result is the same whatever hues the palette entries have).
C11_ClosestSchemes ==
  (pc = "done" /\ call.op = "harmonyMatches"
     /\ call.harmonyType \in {"monochromatic", "shades"})
    => LET base   == palette[call.base]
           found  == findClosestDyesWithDistance(palette, base.hex, 4, {base.id})
           flat   == [i \in 1..Len(palette) |-> [palette[i] EXCEPT !.hue = 0]]
       IN  /\ Len(ret.matches) = Len(found)
           /\ \A i \in 1..Len(found) :
                /\ ret.matches[i].dye = found[i].dye
                /\ ret.matches[i].delta = found[i].distance
           /\ \A i \in 1..Len(ret.matches) :
                getHarmonyMatches(flat, flat[call.base], call.harmonyType)[i].dye.id
                  = ret.matches[i].dye.id

C11_Witness ==
  /\ pc = "done"
  /\ call.op = "harmonyMatches"
  /\ call.harmonyType = "shades"
  /\ Len(palette) = 5
  /\ Len(ret.matches) = 4
  /\ ret.matches # getHarmonyMatches(palette, palette[call.base], "complementary")
  /\ \E i \in 1..3 : ret.matches[i].delta # ret.matches[i + 1].delta

(***************************************************************************)
(* Two-colour mixing.                                                      *)
(***************************************************************************)
\* The channel value the mixing formula defines: the nearest integer to
\* (a * ratio + b * (100 - ratio)) / 100, a fraction of one half going up.
MixFormula(a, b, ratio) == (2 * (a * ratio + b * (100 - ratio)) + 100) \div 200

ChannelsOf(hex) ==
  LET rgb == hexToRgb(hex) IN <<IntOf(rgb.r), IntOf(rgb.g), IntOf(rgb.b)>>

\* C12: for valid colours A, B and an integer ratio in 0..100 every channel
\* of mixColors(A, B, ratio) is round(chA*ratio/100 + chB*(1 - ratio/100)),
\* halves up, and lies in 0..255; ratio 100 returns A, ratio 0 returns B and
\* white with black at 50 gives #808080.
C12_MixColorsFormula ==
  (pc = "done" /\ call.op = "mixColors" /\ call.ratio \in 0..100)
    => LET a == ChannelsOf(call.color1)
           b == ChannelsOf(call.color2)
       IN  /\ IsLowerHexColor(ret.hex)
           /\ \A k \in 1..3 :
                /\ ChannelsOf(ret.hex)[k] = MixFormula(a[k], b[k], call.ratio)
                /\ ChannelsOf(ret.hex)[k] \in 0..255
           /\ call.ratio = 100 => ret.hex = NormalizeHex(call.color1)
           /\ call.ratio = 0 => ret.hex = NormalizeHex(call.color2)

(***************************************************************************)
(* The gradient display cap.                                               *)
(***************************************************************************)
DyeWithItemId(id) == palette[CHOOSE i \in 1..Len(palette) : palette[i].itemID = id]

\* C13: with both dyes known and stepCount n >= 2, generateGradientOG computes
\* n steps, step i at ratio i/(n-1); the gradient bar carries all n of them as
\* stops, and the swatches drawn are the first min(n, 7) of these same steps.
C13_GradientCap ==
  (pc = "done" /\ call.op = "gradient" /\ call.stepCount >= 2
     /\ Resolves(call.startDyeId) /\ Resolves(call.endDyeId))
    => LET n     == call.stepCount
           start == DyeWithItemId(call.startDyeId).hex
           end   == DyeWithItemId(call.endDyeId).hex
           drawn == IF n < 7 THEN n ELSE 7
       IN  /\ ~ret.threw
           /\ ret.layout = "populated"
           /\ Len(ret.colors) = n + drawn
           /\ \A k \in 1..n : ret.colors[k] = interpolateColor(start, end, k - 1, n - 1)
           /\ \A k \in 1..drawn : ret.colors[n + k] = ret.colors[k]

C13_Witness ==
  /\ pc = "done"
  /\ call.op = "gradient"
  /\ call.stepCount = 8
  /\ ~ret.threw
  /\ Len(ret.colors) = 15
  /\ ret.colors[1] # ret.colors[8]
  /\ ret.colors[15] = ret.colors[7]
  /\ ret.colors[15] # ret.colors[8]

(***************************************************************************)
(* Vision simulation.                                                      *)
(***************************************************************************)
\* C14: simulateColorVision(hex, 'normal') returns hex itself for every
\* string hex, and in the accessibility layout for vision type 'normal' (the
\* populated one and the fallback one) the simulated swatch i has the colour
\* of the original swatch i.
C14_NormalVisionIdentity ==
  /\ (pc = "done" /\ call.op = "simulateColorVision" /\ call.visionType = "normal")
       => ~ret.threw /\ ret.hex = call.hex
  /\ (pc = "done" /\ call.op = "accessibility" /\ call.visionType = "normal")
       => /\ ~ret.threw
          /\ Len(ret.colors) > 0
          /\ Len(ret.colors) % 2 = 0
          /\ \A i \in 1..(Len(ret.colors) \div 2) :
               ret.colors[Len(ret.colors) \div 2 + i] = ret.colors[i]

C14_Witness ==
  /\ pc = "done"
  /\ call.op = "accessibility"
  /\ call.visionType = "normal"
  /\ ret.layout = "populated"
  /\ Len(ret.colors) = 4
  /\ ret.colors[1] # ret.colors[2]
  /\ ret.colors[3] = ret.colors[1]
  /\ ret.colors[4] = ret.colors[2]

C14_WitnessFunction ==
  /\ pc = "done"
  /\ call.op = "simulateColorVision"
  /\ call.visionType = "normal"
  /\ call.hex = <<"#", "0", "a", "7", "F", "F", "f">>
  /\ ret.hex = <<"#", "0", "a", "7", "F", "F", "f">>

\* The grey level of the achromatopsia matrix: the nearest integer to
\* 0.299 r + 0.587 g + 0.114 b, a fraction of one half going up, within 0..255.
GreyLevel(r, g, b) == Min(255, Max(0, (2 * (299 * r + 587 * g + 114 * b) + 1000) \div 2000))

\* C15: for a valid colour, simulateColorVision(hex, 'achromatopsia') is a
\* colour whose three channels all equal round(0.299 r + 0.587 g + 0.114 b)
\* clamped to 0..255; for #FF0000 that is 76 on every channel.
C15_AchromatopsiaGrey ==
  (pc = "done" /\ call.op = "simulateColorVision" /\ call.visionType = "achromatopsia"
     /\ IsValidHex(call.hex))
    => LET in   == ChannelsOf(call.hex)
           grey == GreyLevel(in[1], in[2], in[3])
       IN  /\ ~ret.threw
           /\ IsLowerHexColor(ret.hex)
           /\ ChannelsOf(ret.hex) = <<grey, grey, grey>>

(***************************************************************************)
(* The comparison row.                                                     *)
(***************************************************************************)
\* The ids of the call that resolve, in input order.
RECURSIVE ResolvingIds(_)
ResolvingIds(ids) ==
  IF Len(ids) = 0 THEN <<>>
  ELSE (IF Resolves(ids[1]) THEN <<ids[1]>> ELSE <<>>) \o ResolvingIds(Tail(ids))

SizingTable == <<[size |-> 220, gap |-> 50], [size |-> 180, gap |-> 50],
                 [size |-> 150, gap |-> 35], [size |-> 130, gap |-> 25]>>

\* C16: the populated comparison layout with n entries (1 <= n <= 4) uses the
\* swatch size and gap of the table 1 -> 220/50, 2 -> 180/50, 3 -> 150/35,
\* 4 -> 130/25; startX = (1200 - (n*size + (n-1)*gap)) / 2 and swatch i
\* (from 0) is at startX + i*(size + gap).
C16_ComparisonSizing ==
  (pc = "done" /\ call.op = "comparison" /\ ~ret.threw /\ ret.layout = "populated")
    => LET n == Len(ret.colors)
       IN  /\ n \in 1..4
           /\ n = Min(4, Len(ResolvingIds(call.dyeIds)))
           /\ ret.swatchSize = SizingTable[n].size
           /\ ret.gap = SizingTable[n].gap
           /\ ret.startX.twice = 1200 - (n * ret.swatchSize + (n - 1) * ret.gap)
           /\ Len(ret.xs) = n
           /\ \A i \in 0..(n - 1) :
                ret.xs[i + 1].twice = ret.startX.twice + 2 * i * (ret.swatchSize + ret.gap)

C16_Witness ==
  /\ pc = "done"
  /\ call.op = "comparison"
  /\ ret.layout = "populated"
  /\ Len(ret.colors) = 3
  /\ ret.swatchSize = 150
  /\ ret.gap = 35
  /\ ret.startX = JsInt(340)
  /\ ret.xs = <<JsInt(340), JsInt(525), JsInt(710)>>

C16_WitnessFour ==
  /\ pc = "done"
  /\ call.op = "comparison"
  /\ ret.layout = "populated"
  /\ Len(ret.colors) = 4
  /\ ret.swatchSize = 130
  /\ ret.startX = JsHalves(605)

(***************************************************************************)
(* The swatch generator.                                                   *)
(***************************************************************************)
WithHash(color) == IF StartsWithHash(color) THEN color ELSE <<"#">> \o color

EffectiveLimit(limit) == IF limit < 1 THEN 1 ELSE IF limit > 4 THEN 4 ELSE limit

\* C17: generateSwatchOG searches with the effective limit
\* min(max(limit, 1), 4): the layout is the one of that limit (0 and
\* negatives give the layout of 1, values above 4 the layout of 4), the match
\* swatches drawn are the first min(effective limit, palette size) nearest
\* dyes, and their number is the N of the 'TOP N MATCHES' label.
C17_SwatchLimit ==
  (pc = "done" /\ call.op = "swatch" /\ ~ret.threw /\ ret.layout = "populated")
    => LET eff     == EffectiveLimit(call.limit)
           nearest == findClosestDyesWithDistance(palette, WithHash(call.color), eff, {})
       IN  /\ eff \in 1..4
           /\ ret = generateSwatchOG(palette, call.color, eff)
           /\ Len(ret.colors) - 1 = Min(eff, Len(palette))
           /\ \A i \in 1..(Len(ret.colors) - 1) : ret.colors[i + 1] = nearest[i].dye.hex
           /\ ret.topMatches = Len(ret.colors) - 1

C17_Witness ==
  /\ pc = "done"
  /\ call.op = "swatch"
  /\ call.limit = 5
  /\ Len(palette) = 5
  /\ ret.layout = "populated"
  /\ ret.topMatches = 4
  /\ Len(ret.colors) = 5

C17_WitnessLow ==
  /\ pc = "done"
  /\ call.op = "swatch"
  /\ call.limit = -1
  /\ ret.layout = "populated"
  /\ ret.topMatches = 1

\* C18: generateSwatchOG returns the swatch fallback layout, having done no
\* colour computation, for every input that with a missing '#' added is not
\* '#' plus exactly 6 hex digits; nearest-match search, contrast colour,
\* channel parsing and character-colour lookup happen for well-formed colours
\* only, which get the populated layout.
C18_SwatchValidation ==
  (pc = "done" /\ call.op = "swatch")
    => LET wellFormed == IsWellFormedColor(WithHash(call.color))
       IN  /\ ~ret.threw
           /\ ~wellFormed => /\ ret.layout = "fallback"
                             /\ ret.performed = {}
                             /\ Len(ret.colors) = 5
           /\ wellFormed => /\ ret.layout = "populated"
                            /\ ret.colors[1] = WithHash(call.color)
           /\ ret.performed # {} => wellFormed

C18_Witness ==
  /\ pc = "done"
  /\ call.op = "swatch"
  /\ call.color = <<"f", "f", "0", "0", "z", "z">>
  /\ ret.layout = "fallback"
  /\ ret.performed = {}

(***************************************************************************)
(* Mixer routing.                                                          *)
(***************************************************************************)
\* C19: generateMixerOG routes by the ids that resolve.  With dye A or dye B
\* unknown it returns the mixer fallback whatever the third id is; with A and
\* B known and a third id requested but unknown, the 2-dye layout with the
\* subtitle ratio/(100 - ratio); with all three known, the 3-dye layout of
\* the equal-parts mix, the same for every ratio; with no third id, the 2-dye
\* layout.  (A ratio outside 0..100 joined with a distance function that
\* rejects malformed colours is left out: the mix itself fails there.)
C19_MixerRouting ==
  (pc = "done" /\ call.op = "mixer" /\ (call.ratio \in 0..100 \/ ~call.strict))
    => LET okA == Resolves(call.dyeAId)
           okB == Resolves(call.dyeBId)
           okC == call.dyeCId # 0 /\ Resolves(call.dyeCId)
           two == /\ ret.layout = "populated"
                  /\ ret.dyes = 2
                  /\ ret.subtitle = [text |-> "Blend", first |-> call.ratio,
                                     second |-> 100 - call.ratio]
                  /\ ret.colors = <<DyeWithItemId(call.dyeAId).hex,
                                    DyeWithItemId(call.dyeBId).hex,
                                    mixColors(DyeWithItemId(call.dyeAId).hex,
                                              DyeWithItemId(call.dyeBId).hex, call.ratio)>>
       IN  /\ ~ret.threw
           /\ (~okA \/ ~okB)
                => /\ ret.layout = "fallback"
                   /\ ret.colors = <<<<"#", "e", "f", "4", "4", "4", "4">>,
                                     <<"#", "3", "b", "8", "2", "f", "6">>,
                                     <<"#", "9", "7", "4", "7", "b", "a">>>>
           /\ (okA /\ okB /\ ~okC) => two
           /\ (okA /\ okB /\ okC)
                => /\ ret.layout = "populated"
                   /\ ret.dyes = 3
                   /\ ret.subtitle = [text |-> "3-Dye Blend"]
                   /\ ret.colors = <<DyeWithItemId(call.dyeAId).hex,
                                     DyeWithItemId(call.dyeBId).hex,
                                     DyeWithItemId(call.dyeCId).hex,
                                     mixThreeColors(DyeWithItemId(call.dyeAId).hex,
                                                    DyeWithItemId(call.dyeBId).hex,
                                                    DyeWithItemId(call.dyeCId).hex)>>
                   /\ \A r \in Ratios :
                        ret = generateMixerOG(palette, call.dyeAId, call.dyeBId,
                                              call.dyeCId, r, call.strict)

\* A and B known, a third id requested that is unknown: the 2-dye layout.
C19_Witness ==
  /\ pc = "done"
  /\ call.op = "mixer"
  /\ call.dyeAId = 11
  /\ call.dyeBId = 12
  /\ call.dyeCId = 99
  /\ call.ratio = 30
  /\ ret.layout = "populated"
  /\ ret.dyes = 2
  /\ ret.subtitle.first = 30
  /\ ret.subtitle.second = 70

C19_WitnessThree ==
  /\ pc = "done"
  /\ call.op = "mixer"
  /\ call.dyeCId = 14
  /\ ret.layout = "populated"
  /\ ret.dyes = 3

(***************************************************************************)
(* Entries of the comparison and accessibility layouts.                    *)
(***************************************************************************)
\* C20: comparison and accessibility draw the first 4 ids that resolve, in
\* input order: unknown ids are dropped before the cap, so they take none of
\* the 4 slots, and the fallback layout is returned exactly when no id
\* resolves.  (Accessibility draws each entry twice: the originals, then the
\* simulated colours; its vision type is one of the enumerated ones.)
C20_FirstFourResolving ==
  (pc = "done" /\ call.op \in {"comparison", "accessibility"}
     /\ (call.op = "accessibility" => call.visionType \in VisionTypes))
    => LET ids == ResolvingIds(call.dyeIds)
           n   == Min(4, Len(ids))
       IN  /\ ~ret.threw
           /\ ret.layout = (IF n = 0 THEN "fallback" ELSE "populated")
           /\ n > 0 => /\ Len(ret.colors) = (IF call.op = "comparison" THEN n ELSE 2 * n)
                       /\ \A i \in 1..n : ret.colors[i] = DyeWithItemId(ids[i]).hex

C20_Witness ==
  /\ pc = "done"
  /\ call.op = "comparison"
  /\ call.dyeIds = <<11, 99, 12, 13, 14, 15>>
  /\ Len(palette) = 5
  /\ ret.layout = "populated"
  /\ ret.colors = <<palette[1].hex, palette[2].hex, palette[3].hex, palette[4].hex>>

C20_WitnessAccessibility ==
  /\ pc = "done"
  /\ call.op = "accessibility"
  /\ call.visionType = "protanopia"
  /\ call.dyeIds = <<11, 99, 12, 13, 14, 15>>
  /\ Len(palette) = 5
  /\ Len(ret.colors) = 8

(***************************************************************************)
(* C22: entries of the result of findClosestDyesWithDistance that are at   *)
(* the same distance from the target stand in palette enumeration order,   *)
(* and a palette entry the limit cut off at the distance of a kept entry   *)
(* comes later in the palette than that kept entry.                        *)
(***************************************************************************)
\* The position of the entry with that id in the palette.
PalettePos(id) == CHOOSE i \in 1..Len(palette) : palette[i].id = id

SameDistance(hexA, hexB) ==
  getDeltaE_Oklab(call.hex, hexA) = getDeltaE_Oklab(call.hex, hexB)

C22_TiesInPaletteOrder ==
  (pc = "done" /\ call.op = "findClosest") =>
    LET kept == {ret.matches[i].dye.id : i \in 1..Len(ret.matches)}
    IN  /\ \A i, j \in 1..Len(ret.matches) :
             (i < j /\ ret.matches[i].distance = ret.matches[j].distance)
               => PalettePos(ret.matches[i].dye.id) < PalettePos(ret.matches[j].dye.id)
        /\ \A i \in 1..Len(ret.matches) : \A p \in 1..Len(palette) :
             (/\ palette[p].id \notin kept
              /\ palette[p].id \notin call.excludeIds
              /\ SameDistance(palette[p].hex, ret.matches[i].dye.hex))
               => PalettePos(ret.matches[i].dye.id) < p

\* A limit cuts between two entries at the same distance: the palette lists
\* Rose Red (id 6) before Dalamud Red (id 2), and only Rose Red is kept.
C22_Witness ==
  /\ pc = "done"
  /\ call.op = "findClosest"
  /\ call.limit = 1
  /\ call.excludeIds = {}
  /\ Len(ret.matches) = 1
  /\ ret.matches[1].dye.id = 6
  /\ \E p \in 1..Len(palette) : palette[p].id = 2 /\ PalettePos(6) < p

(***************************************************************************)
(* C21: the palette snapshot never changes, whatever calls are served, and *)
(* two calls with the same arguments return the same result whatever was   *)
(* served before or between them.                                          *)
(***************************************************************************)
SameCallSameResult ==
  \A i, j \in 1..Len(served) :
    served[i].call = served[j].call => served[i].ret = served[j].ret

Succeeded(task) ==
  /\ task.pc = "resolved"
  /\ task.kind = "renderOGImage" => task.status = 200

C23_InitialisesOnce ==
  /\ initStarts <= 1
  /\ \A t \in 1..Len(tasks) :
       /\ Succeeded(tasks[t]) => wasmInitialized
       /\ tasks[t].rendered => wasmInitialized

\* One call of each kind has returned successfully, after a single
\* initialisation.
C23_Witness ==
  /\ Len(tasks) >= 3
  /\ initStarts = 1
  /\ tasks[1].kind = "initRenderer" /\ Succeeded(tasks[1])
  /\ tasks[2].kind = "renderSvgToPng" /\ Succeeded(tasks[2]) /\ tasks[2].rendered
  /\ tasks[3].kind = "renderOGImage" /\ Succeeded(tasks[3])

(***************************************************************************)
(* C30: once a call has seen the WASM initialisation fail, wasmInitialized *)
(* is false, initWasm has been started exactly once, no initRenderer or    *)
(* renderSvgToPng call has resolved or is about to, nothing has been       *)
(* rendered, and every renderOGImage call that has finished has returned   *)
(* a 500 response; renderOGImage never rejects.                            *)
(***************************************************************************)
SawInitFailure(task) ==
  \/ task.pc = "initFailed"
  \/ task.pc = "rejected" /\ ~task.rendered
  \/ task.kind = "renderOGImage" /\ task.pc = "resolved" /\ ~task.rendered

C30_StaysFailed ==
  /\ \A t \in 1..Len(tasks) : tasks[t].kind = "renderOGImage" => tasks[t].pc # "rejected"
  /\ (\E t \in 1..Len(tasks) : SawInitFailure(tasks[t])) =>
       /\ ~wasmInitialized
       /\ initStarts = 1
       /\ \A t \in 1..Len(tasks) :
            /\ tasks[t].pc \notin {"awaitInit", "initDone"}
            /\ ~tasks[t].rendered
            /\ tasks[t].pc = "resolved" =>
                 (tasks[t].kind = "renderOGImage" /\ tasks[t].status = 500)

\* The first call saw the failure; two calls made after it have finished: a
\* renderSvgToPng that rejected and a renderOGImage that answered 500.
C30_Witness ==
  /\ Len(tasks) >= 3
  /\ initStarts = 1
  /\ tasks[1].pc = "rejected" /\ ~tasks[1].late
  /\ tasks[2].kind = "renderSvgToPng" /\ tasks[2].late /\ tasks[2].pc = "rejected"
  /\ tasks[3].kind = "renderOGImage" /\ tasks[3].late /\ tasks[3].pc = "resolved"
  /\ tasks[3].status = 500

(***************************************************************************)
(* C25: every lookup that finds a colour reports, for its 0-based index i, *)
(* col = i mod 8 + 1 and row = floor(i / 8) + 1, so that col is in 1..8,   *)
(* row is at least 1 and (row - 1) * 8 + (col - 1) = i; this holds on the  *)
(* shared, hair, skin and explicit-sheet paths alike.                      *)
(***************************************************************************)
C25_GridPosition ==
  (pc = "done" /\ call.op \in {"findCharacterColorByHex", "getCharacterColorFromSheet"}
   /\ ret.found) =>
    /\ ret.index >= 0
    /\ ret.col = (ret.index % 8) + 1
    /\ ret.row = (ret.index \div 8) + 1
    /\ ret.col \in 1..8
    /\ ret.row >= 1
    /\ (ret.row - 1) * 8 + (ret.col - 1) = ret.index

\* A skin colour in the third row of its sheet, found through the search by
\* hex.
C25_Witness ==
  /\ pc = "done"
  /\ call.op = "findCharacterColorByHex"
  /\ ret.found
  /\ ret.categoryName = "Skin Colors"
  /\ ret.index = 16
  /\ ret.row = 3
  /\ ret.col = 1

\* The last colour of the eye sheet, found through the explicit sheet.
C25_WitnessSheet ==
  /\ pc = "done"
  /\ call.op = "getCharacterColorFromSheet"
  /\ call.sheet = "eyeColors"
  /\ ret.found
  /\ ret.index = MaxSheet - 1

\* A hair colour found through the explicit race sheet.
C25_WitnessHair ==
  /\ pc = "done"
  /\ call.op = "getCharacterColorFromSheet"
  /\ call.sheet = "hairColors"
  /\ call.subrace = "TheLost"
  /\ ret.found
  /\ ret.categoryName = "Hair Colors"
  /\ ret.index = 8
  /\ ret.col = 1
  /\ ret.row = 2

(***************************************************************************)
(* C26: in every layout a name no longer than the layout's threshold is    *)
(* drawn unchanged, and a longer name is drawn as a prefix of it followed  *)
(* by '..', in a label no longer than the threshold.                       *)
(***************************************************************************)
LabelThreshold(site) ==
  CASE site \in {"gradient", "mixer3", "swatch", "accessibility"} -> 10
    [] site \in {"harmony", "comparison"}                         -> 14
    [] site = "mixer"                                             -> 12
    [] site = "mixer3Match"                                       -> 18

C26_TruncationWithinThreshold ==
  (pc = "done" /\ call.op = "label") =>
    IF Len(call.name) <= LabelThreshold(call.site)
    THEN ret.label = call.name
    ELSE /\ Len(ret.label) <= LabelThreshold(call.site)
         /\ Len(ret.label) >= 2
         /\ SubSeq(ret.label, Len(ret.label) - 1, Len(ret.label)) = <<".", ".">>
         /\ SubSeq(ret.label, 1, Len(ret.label) - 2)
              = SubSeq(call.name, 1, Len(ret.label) - 2)

(***************************************************************************)
(* C27: for every id list, the metadata of a comparison or accessibility   *)
(* page and the image that page names agree: the metadata is the fallback  *)
(* metadata (default image, no theme colour) exactly when the image is the *)
(* fallback layout, and the number of dyes the metadata names is the       *)
(* number of dyes the image draws.                                         *)
(***************************************************************************)
IdListImageServed ==
  /\ pc = "done"
  /\ call.url \in {<<"/", "comparison">>, <<"/", "accessibility">>}
  /\ ~ret.threw
  /\ ret.route \in {"ogComparison", "ogAccessibility"}
  /\ ~ret.image.threw

\* An accessibility image draws every dye twice: as it is and as it is seen.
DyesDrawn == IF ret.route = "ogAccessibility" THEN Len(ret.image.colors) \div 2
             ELSE Len(ret.image.colors)

C27_MetadataAgreesWithImage ==
  IdListImageServed =>
    /\ ret.og.fallback <=> ret.image.layout = "fallback"
    /\ ~ret.og.fallback => ret.og.dyeCount = DyesDrawn

(***************************************************************************)
(* C28: every image URL that the metadata generators emit, for every tool  *)
(* and on the populated and the fallback branch alike, is routed to one of *)
(* the image routes and answered with a rendered image; none is answered   *)
(* by the catch-all route.                                                 *)
(***************************************************************************)
ImageRoutes == {"ogHarmony", "ogGradient", "ogMixer", "ogMixer3", "ogSwatch",
                "ogComparison", "ogAccessibility", "ogDefault"}

ImageRequested == pc = "done" /\ ~ret.threw /\ MatchRoute(PathSegments(call.url)).name = "tool"

C28_ImageUrlsAreRouted ==
  ImageRequested =>
    /\ ret.route \in ImageRoutes
    /\ ~ret.image.threw
    /\ ret.image.layout \in {"populated", "fallback", "default"}

(***************************************************************************)
(* C29: in the populated gradient layout, for every stepCount >= 2, also   *)
(* above the display cap of 7, the first swatch drawn stands under the     *)
(* START label and has the colour of the start dye, the last swatch drawn  *)
(* stands under the END label and has the colour of the end dye, and both  *)
(* carry the endpoint styling.                                             *)
(***************************************************************************)
GradientDrawn ==
  /\ pc = "done"
  /\ call.op = "gradient"
  /\ call.stepCount >= 2
  /\ ~ret.threw
  /\ ret.layout = "populated"

\* The colours of the swatches drawn follow those of the gradient bar stops.
DrawnColor(k) == ret.colors[call.stepCount + k]

SwatchCentre(k) == JsHalves(ret.swatches[k].x.twice + ret.swatches[k].width.twice \div 2)

C29_EndpointsUnderLabels ==
  GradientDrawn =>
    LET last == Len(ret.swatches)
    IN  /\ SwatchCentre(1) = ret.startLabel
        /\ SameChannels(DrawnColor(1), DyeWithItemId(call.startDyeId).hex)
        /\ ret.swatches[1].isEndpoint
        /\ SwatchCentre(last) = ret.endLabel
        /\ SameChannels(DrawnColor(last), DyeWithItemId(call.endDyeId).hex)
        /\ ret.swatches[last].isEndpoint

(***************************************************************************)
(* C24: every rectangle of a populated layout has finite coordinates and   *)
(* lies inside the 1200x630 canvas, for comparison and accessibility with  *)
(* 1..4 entries, harmony with 0..4 matches, swatch with 1..4 matches,      *)
(* gradient with 2 or more steps and both mixer layouts; every swatch      *)
(* rectangle lies horizontally within [0, 1200] and vertically between the *)
(* 60px header band and the footer band that starts at y = 580.            *)
(***************************************************************************)
PopulatedDrawn ==
  /\ pc = "done"
  /\ call.op \in {"harmony", "gradient", "mixer", "swatch", "comparison", "accessibility"}
  /\ ~ret.threw
  /\ ret.layout = "populated"
  /\ call.op = "gradient" => call.stepCount >= 2
  /\ call.op = "swatch" => ret.topMatches >= 1

\* The rectangle is inside the band of the canvas from top to bottom.
InsideCanvas(r, top, bottom) ==
  /\ ~r.x.nan /\ ~r.y.nan /\ ~r.width.nan /\ ~r.height.nan
  /\ r.width.twice >= 0 /\ r.height.twice >= 0
  /\ r.x.twice >= 0
  /\ r.x.twice + r.width.twice <= 2 * OG_DIMENSIONS.width
  /\ r.y.twice >= 2 * top
  /\ r.y.twice + r.height.twice <= 2 * bottom

C24_RectanglesInsideCanvas ==
  PopulatedDrawn =>
    \A k \in 1..Len(ret.rects) :
      /\ InsideCanvas(ret.rects[k], 0, OG_DIMENSIONS.height)
      /\ ret.rects[k].swatch => InsideCanvas(ret.rects[k], 60, 580)

C24_Witness ==
  /\ PopulatedDrawn
  /\ call.op = "gradient"
  /\ call.stepCount = 8
  /\ Len(ret.swatches) = 7
  /\ ret.rects[2].x = JsHalves(322)
  /\ ret.rects[8].x.twice + ret.rects[8].width.twice = 2 * 1039

C24_WitnessAccessibility ==
  /\ PopulatedDrawn
  /\ call.op = "accessibility"
  /\ Len(ret.rects) = 9
  /\ ret.rects[1].x = JsHalves(235)
  /\ ret.rects[1].y = JsHalves(545)

====
